---- MODULE Spec2Model ----
(***************************************************************************)
(* A model of the ai-reminder program: the durable message cache           *)
(* (cache_manager.py), the LLM client's retry loop (llm_client.py), the     *)
(* reminder scheduler (scheduler.py) and the application loop (main.py).    *)
(*                                                                         *)
(* Python strings are sequences of one-character strings; Python values    *)
(* are records [t, s, n] (type tag, string payload, integer payload).      *)
(***************************************************************************)
EXTENDS Integers, Sequences, FiniteSets, TLC

VARIABLES
    cache_file,     \* content of messages.json
    stamp,          \* logical clock behind datetime.now().isoformat() in entries
    q_op,           \* the last cache operation: its name, argument, result, file before;
                    \* for validate_and_repair_cache also its writes, and the writes of
                    \* the validate_and_repair_cache call right before it (-1: none)
    sent_file,      \* content of sent_messages.json
    sent_log,       \* ghost: what mark_as_sent was called with, oldest first
    enq_log,        \* ghost: the successful add_message calls, oldest first
    deq_log,        \* ghost: the texts get_oldest_message returned, oldest first
    gen_pc,         \* generate_message: "idle", "running", "returned" or "raised"
    gen_max_retries,
    gen_attempt,    \* the loop variable of generate_message
    gen_trace,      \* ghost: the service calls and the sleeps of this call, in order
    gen_result,     \* the value returned, or the message of the exception raised
    clean_op,       \* the last _clean_message call: what it was given and gave, and
                    \* whether it was given what the call before it gave
    range_start,    \* ReminderScheduler.range_start, a time of day
    range_end,
    randomize,
    time_range_end, \* ghost: the end time ReminderScheduler was constructed with
    next_reminder_time,
    now,            \* the last reading of datetime.now(), in seconds
    s_op,           \* the last scheduler operation: name, result, next_reminder_time
                    \* before it, the clock readings it took and its draw for today
    due_streak,     \* ghost: the True answers of should_send_reminder since the last
                    \* schedule_next_reminder call and the last step back of the clock
    app_pc,         \* where ReminderApp.run stands
    is_sending,     \* ReminderApp._is_sending
    cache_size,     \* CacheManager.cache_size
    main_webhook_url,
    wake,           \* the instant the loop's time.sleep ends
    cycle,          \* the _send_reminder call under way or last ended: the message
                    \* taken, the cache count before it, the transport's answer;
                    \* ghost: the clock at its start, what needs_refill gave (-1:
                    \* not asked), its generate_message and add_message calls
    init_loop       \* the loop of _initialize_cache: needed, i, success_count;
                    \* ghost: the cache count it found after validate_and_repair_cache
                    \* (-1: not run yet)

avars == <<app_pc, is_sending, cache_size, main_webhook_url, wake, cycle, init_loop>>
qvars == <<cache_file, stamp, q_op, enq_log, deq_log>>
hvars == <<sent_file, sent_log>>
gvars == <<gen_pc, gen_max_retries, gen_attempt, gen_trace, gen_result>>
cvars == <<clean_op>>
svars == <<range_start, range_end, randomize, time_range_end, next_reminder_time, now, s_op,
           due_streak>>

\* ------------------------------------------------------------------ bounds

MaxInit == 2        \* entries in messages.json when the program starts
MaxStamp == 4       \* the logical clock's last value (caps the add_message calls)
MaxRetriesArg == 4  \* the largest max_retries generate_message is called with
MaxDay == 1         \* the last calendar date the clock reaches
MaxCacheSize == 2   \* the largest configured cache.cache_size
MaxAppDay == 0      \* the last calendar date the clock of a run of the application reaches
MaxStreak == 2      \* the True answers in a row that are counted
MaxAppInit == 1     \* entries in messages.json when the application starts
MaxSent == 22       \* the mark_as_sent calls of a run
MaxSentInit == 2    \* entries in messages.json when the sent history is exercised
MaxFaultSent == 1   \* the mark_as_sent calls of a run on a failing storage
MaxFaultStamp == 2  \* the logical clock's last value on a failing storage
MaxPollDay == 1     \* the last calendar date on which the polling loop schedules
MaxMarkers == 2     \* the list markers ahead of a text given to _clean_message
MaxAlternates == 2  \* the alternates after a text given to _clean_message

\* ----------------------------------------------------------- Python values

PyStr(s) == [t |-> "str", s |-> s, n |-> 0]
PyNone == [t |-> "NoneType", s |-> <<>>, n |-> 0]
PyInt(n) == [t |-> "int", s |-> <<>>, n |-> n]
PyBool(b) == [t |-> "bool", s |-> <<>>, n |-> IF b THEN 1 ELSE 0]
\* A list: s holds its items, Python values themselves.
PyList(items) == [t |-> "list", s |-> items, n |-> 0]

\* Python truthiness: `not v` is ~Truthy(v).
Truthy(v) ==
    CASE v.t = "str" -> v.s # <<>>
      [] v.t = "NoneType" -> FALSE
      [] OTHER -> v.n # 0

IsSpace(c) == c \in {" ", "\n", "\t"}

RECURSIVE LStrip(_)
LStrip(s) == IF s # <<>> /\ IsSpace(Head(s)) THEN LStrip(Tail(s)) ELSE s

RECURSIVE RStrip(_)
RStrip(s) ==
    IF s # <<>> /\ IsSpace(s[Len(s)]) THEN RStrip(SubSeq(s, 1, Len(s) - 1)) ELSE s

\* str.strip()
Strip(s) == RStrip(LStrip(s))

\* ------------------------------------------------------ messages.json

\* One element of the JSON array: a dict (with or without a "message" key) or
\* any other JSON value.
JDict(message, ts) ==
    [t |-> "dict", has_message |-> TRUE, message |-> message, timestamp |-> ts]
JDictNoMessage(ts) ==
    [t |-> "dict", has_message |-> FALSE, message |-> PyNone, timestamp |-> ts]
JOther(ts) ==
    [t |-> "other", has_message |-> FALSE, message |-> PyNone, timestamp |-> ts]

\* The file: a JSON list, some other JSON value, or not readable as JSON
\* (json.JSONDecodeError, FileNotFoundError).
FileList(entries) == [t |-> "list", entries |-> entries]
FileNotList == [t |-> "notlist", entries |-> <<>>]
FileUnreadable == [t |-> "unreadable", entries |-> <<>>]

\* The per-entry checks of _read_cache.
ValidEntry(entry) ==
    /\ entry.t = "dict"
    /\ entry.has_message
    /\ entry.message.t = "str"
    /\ Strip(entry.message.s) # <<>>

\* _write_cache: the file is rewritten whole. w is what the storage does:
\* "ok", "open" (open() raises, the file is left as it was) or "dump" (the
\* write raises after the file was truncated).
write_cache(file, cache, w) ==
    CASE w = "ok" -> [file |-> FileList(cache), raised |-> FALSE]
      [] w = "open" -> [file |-> file, raised |-> TRUE]
      [] OTHER -> [file |-> FileUnreadable, raised |-> TRUE]

\* Mutant: the valid entries are returned and the file is left as it was read.
read_cache_without_write_back(file, w) ==
    IF file.t # "list"
    THEN [cache |-> <<>>, file |-> file, raised |-> FALSE, writes |-> 0]
    ELSE [cache |-> SelectSeq(file.entries, ValidEntry), file |-> file,
          raised |-> FALSE, writes |-> 0]

\* Mutant: only FileNotFoundError is caught, what is not a list of entries
\* raises.
read_cache_raising_when_malformed(file, w) ==
    IF file.t # "list"
    THEN [cache |-> <<>>, file |-> file, raised |-> TRUE, writes |-> 0]
    ELSE LET valid_cache == SelectSeq(file.entries, ValidEntry)
         IN  IF Len(valid_cache) < Len(file.entries)
             THEN LET wr == write_cache(file, valid_cache, w)
                  IN  [cache |-> valid_cache, file |-> wr.file, raised |-> wr.raised,
                       writes |-> 1]
             ELSE [cache |-> valid_cache, file |-> file, raised |-> FALSE, writes |-> 0]

\* _read_cache: the valid entries, written back when one was dropped.
\* `writes` counts the calls of _write_cache.
read_cache(file, w) ==
    IF file.t # "list"
    THEN [cache |-> <<>>, file |-> file, raised |-> FALSE, writes |-> 0]
    ELSE LET valid_cache == SelectSeq(file.entries, ValidEntry)
         IN  IF Len(valid_cache) < Len(file.entries)
             THEN LET wr == write_cache(file, valid_cache, w)
                  IN  [cache |-> valid_cache, file |-> wr.file, raised |-> wr.raised,
                       writes |-> 1]
             ELSE [cache |-> valid_cache, file |-> file, raised |-> FALSE, writes |-> 0]

\* What a call of a CacheManager method gave: the value returned, the file it
\* left, and what it did to the storage on the way: the calls of _read_cache
\* (reads), the calls of _write_cache made by _read_cache (heals), all calls of
\* _write_cache (writes), and whether one of these writes raised (failed).
Outcome(ret, file, reads, heals, writes, failed) ==
    [ret |-> ret, file |-> file, reads |-> reads, heals |-> heals,
     writes |-> writes, failed |-> failed]

\* Mutant: the text is stored as stripped without a look at what is left of it.
add_message_unchecked_after_strip(file, message, ts, ws) ==
    IF ~Truthy(message) \/ message.t # "str"
    THEN Outcome(FALSE, file, 0, 0, 0, FALSE)
    ELSE LET rd == read_cache(file, ws[1])
         IN  IF rd.raised
             THEN Outcome(FALSE, rd.file, 1, rd.writes, rd.writes, TRUE)
             ELSE LET wr == write_cache(rd.file,
                                Append(rd.cache, JDict(PyStr(Strip(message.s)), ts)), ws[2])
                  IN  Outcome(~wr.raised, wr.file, 1, rd.writes, rd.writes + 1, wr.raised)

\* Mutant: cache.insert(0, entry), the new entry goes ahead of the others.
add_message_at_head(file, message, ts, ws) ==
    IF ~Truthy(message) \/ message.t # "str"
    THEN Outcome(FALSE, file, 0, 0, 0, FALSE)
    ELSE LET m == Strip(message.s)
         IN  IF m = <<>>
             THEN Outcome(FALSE, file, 0, 0, 0, FALSE)
             ELSE LET rd == read_cache(file, ws[1])
                  IN  IF rd.raised
                      THEN Outcome(FALSE, rd.file, 1, rd.writes, rd.writes, TRUE)
                      ELSE LET wr == write_cache(rd.file,
                                         <<JDict(PyStr(m), ts)>> \o rd.cache, ws[2])
                           IN  Outcome(~wr.raised, wr.file, 1, rd.writes, rd.writes + 1,
                                       wr.raised)

\* add_message: ws[1] is the storage's answer to the write of _read_cache,
\* ws[2] to the write of the new cache. Every exception is caught and gives
\* False.
add_message(file, message, ts, ws) ==
    IF ~Truthy(message) \/ message.t # "str"
    THEN Outcome(FALSE, file, 0, 0, 0, FALSE)
    ELSE LET m == Strip(message.s)
         IN  IF m = <<>>
             THEN Outcome(FALSE, file, 0, 0, 0, FALSE)
             ELSE LET rd == read_cache(file, ws[1])
                  IN  IF rd.raised
                      THEN Outcome(FALSE, rd.file, 1, rd.writes, rd.writes, TRUE)
                      ELSE LET wr == write_cache(rd.file,
                                         Append(rd.cache, JDict(PyStr(m), ts)), ws[2])
                           IN  Outcome(~wr.raised, wr.file, 1, rd.writes, rd.writes + 1,
                                       wr.raised)

\* Mutant: cache.pop(), the newest entry.
pop_newest(cache) == [oldest |-> cache[Len(cache)], rest |-> SubSeq(cache, 1, Len(cache) - 1)]

\* cache.pop(0): the entry taken and the list left.
pop_oldest(cache) == [oldest |-> Head(cache), rest |-> Tail(cache)]

\* Mutant: the stored message is returned as it is, neither validated nor stripped.
get_oldest_message_unchecked(file, ws) ==
    LET rd == read_cache(file, ws[1])
    IN  IF rd.raised \/ rd.cache = <<>>
        THEN Outcome(PyNone, rd.file, 1, rd.writes, rd.writes, rd.raised)
        ELSE LET wr == write_cache(rd.file, Tail(rd.cache), ws[2])
             IN  Outcome(Head(rd.cache).message, wr.file, 1, rd.writes, rd.writes + 1,
                         wr.raised)

\* Mutant: an empty cache gives the empty string instead of None.
get_oldest_message_or_blank(file, ws) ==
    LET rd == read_cache(file, ws[1])
    IN  IF rd.raised \/ rd.cache = <<>>
        THEN Outcome(PyStr(<<>>), rd.file, 1, rd.writes, rd.writes, rd.raised)
        ELSE LET wr == write_cache(rd.file, Tail(rd.cache), ws[2])
             IN  Outcome(PyStr(Strip(Head(rd.cache).message.s)), wr.file, 1, rd.writes,
                         rd.writes + 1, wr.raised)

\* get_oldest_message, its recursion on an invalid entry included. Every
\* exception is caught and gives None, the answer of an empty cache.
RECURSIVE get_oldest_message(_, _)
get_oldest_message(file, ws) ==
    LET rd == read_cache(file, ws[1])
    IN  IF rd.raised \/ rd.cache = <<>>
        THEN Outcome(PyNone, rd.file, 1, rd.writes, rd.writes, rd.raised)
        ELSE
        LET p == pop_oldest(rd.cache)
            oldest == p.oldest
            cache == p.rest
            message == oldest.message
            wr == write_cache(rd.file, cache, ws[2])
            written == Outcome(PyNone, wr.file, 1, rd.writes, rd.writes + 1, wr.raised)
            skip == IF wr.raised \/ cache = <<>>
                    THEN written
                    ELSE LET rr == get_oldest_message(wr.file, ws)
                         IN  Outcome(rr.ret, rr.file, 1 + rr.reads, rd.writes + rr.heals,
                                     rd.writes + 1 + rr.writes, rr.failed)
        IN  IF oldest.t # "dict" \/ ~oldest.has_message
            THEN Outcome(PyNone, rd.file, 1, rd.writes, rd.writes, FALSE)
                                                        \* oldest["message"] raises
            ELSE IF ~Truthy(message) \/ message.t # "str"
            THEN skip
            ELSE IF Strip(message.s) = <<>>
            THEN skip
            ELSE IF wr.raised
            THEN written
            ELSE Outcome(PyStr(Strip(message.s)), wr.file, 1, rd.writes, rd.writes + 1,
                         FALSE)

\* Mutant: of the entries of one stripped text the last is kept.
RECURSIVE unique_cache_keeping_last(_, _)
unique_cache_keeping_last(cache, seen_messages) ==
    IF cache = <<>>
    THEN <<>>
    ELSE LET entry == Head(cache)
             msg == Strip(entry.message.s)
             later == {Strip(cache[i].message.s) : i \in 2..Len(cache)}
         IN  IF msg # <<>> /\ msg \notin later
             THEN <<entry>> \o unique_cache_keeping_last(Tail(cache), seen_messages)
             ELSE unique_cache_keeping_last(Tail(cache), seen_messages)

\* The loop of validate_and_repair_cache: the first entry of each stripped text.
RECURSIVE unique_cache(_, _)
unique_cache(cache, seen_messages) ==
    IF cache = <<>>
    THEN <<>>
    ELSE LET entry == Head(cache)
             msg == Strip(entry.message.s)
         IN  IF msg # <<>> /\ msg \notin seen_messages
             THEN <<entry>> \o unique_cache(Tail(cache), seen_messages \cup {msg})
             ELSE unique_cache(Tail(cache), seen_messages)

\* Mutant: the unique entries are written back whether or not one was dropped.
validate_and_repair_cache_always_writing(file, ws) ==
    LET rd == read_cache(file, ws[1])
    IN  IF rd.raised
        THEN Outcome(FALSE, rd.file, 1, rd.writes, rd.writes, TRUE)
        ELSE LET wr == write_cache(rd.file, unique_cache(rd.cache, {}), ws[2])
             IN  Outcome(~wr.raised, wr.file, 1, rd.writes, rd.writes + 1, wr.raised)

\* validate_and_repair_cache. Every exception is caught and gives False.
validate_and_repair_cache(file, ws) ==
    LET rd == read_cache(file, ws[1])
    IN  IF rd.raised
        THEN Outcome(FALSE, rd.file, 1, rd.writes, rd.writes, TRUE)
        ELSE LET unique == unique_cache(rd.cache, {})
                 duplicates == Len(rd.cache) - Len(unique)
             IN  IF duplicates > 0
                 THEN LET wr == write_cache(rd.file, unique, ws[2])
                      IN  Outcome(~wr.raised, wr.file, 1, rd.writes, rd.writes + 1,
                                  wr.raised)
                 ELSE Outcome(TRUE, rd.file, 1, rd.writes, rd.writes, FALSE)

\* tools/cache_utils.py, repair_cache: the loop that builds valid_cache from
\* the list the file holds.
RECURSIVE repair_cache(_, _)
repair_cache(cache, seen_messages) ==
    IF cache = <<>>
    THEN <<>>
    ELSE LET entry == Head(cache)
             rest == Tail(cache)
         IN  IF entry.t # "dict" \/ ~entry.has_message \/ entry.message.t # "str"
             THEN repair_cache(rest, seen_messages)
             ELSE LET msg == Strip(entry.message.s)
                  IN  IF msg = <<>> \/ msg \in seen_messages
                      THEN repair_cache(rest, seen_messages)
                      ELSE <<entry>> \o repair_cache(rest, seen_messages \cup {msg})

\* get_cache_count: it has no try of its own, a failed write of _read_cache
\* propagates (raised) and nothing is returned.
get_cache_count(file, w) ==
    LET rd == read_cache(file, w)
    IN  [ret |-> Len(rd.cache), file |-> rd.file, raised |-> rd.raised,
         reads |-> 1, heals |-> rd.writes, writes |-> rd.writes, failed |-> rd.raised]

\* is_cache_full: get_cache_count() >= cache_size.
is_cache_full(file, size, w) ==
    LET c == get_cache_count(file, w)
    IN  [ret |-> c.ret >= size, file |-> c.file, raised |-> c.raised, reads |-> c.reads,
         heals |-> c.heals, writes |-> c.writes, failed |-> c.failed]

\* Mutant: the difference is returned as it is, negative when the cache
\* holds more than cache_size.
needs_refill_unclamped(file, size, w) ==
    LET c == get_cache_count(file, w)
    IN  [c EXCEPT !.ret = size - c.ret]

\* Mutant: cache_size is returned, whatever the cache holds.
needs_refill_ignoring_count(file, size, w) ==
    LET c == get_cache_count(file, w)
    IN  [c EXCEPT !.ret = size]

\* needs_refill: max(0, cache_size - get_cache_count()).
needs_refill(file, size, w) ==
    LET c == get_cache_count(file, w)
        needed == size - c.ret
    IN  [c EXCEPT !.ret = IF needed > 0 THEN needed ELSE 0]

\* mark_as_sent keeps the last 20 entries.
SentLimit == 20

\* _read_sent: what the file holds, unvalidated; an undecodable or missing
\* file reads as the empty list.
read_sent(file) == IF file.t = "list" THEN file.entries ELSE <<>>

\* _write_sent: as _write_cache.
write_sent(file, sent, w) ==
    CASE w = "ok" -> [file |-> FileList(sent), raised |-> FALSE]
      [] w = "open" -> [file |-> file, raised |-> TRUE]
      [] OTHER -> [file |-> FileUnreadable, raised |-> TRUE]

\* The slice list[-count:] for count >= 0. -0 is 0, so list[-0:] is the whole
\* list; a count of the length or more gives the whole list too.
LastSlice(list, count) ==
    IF count = 0 \/ count >= Len(list)
    THEN list
    ELSE SubSeq(list, Len(list) - count + 1, Len(list))

\* [entry["message"] for entry in entries]
Messages(entries) == [i \in 1..Len(entries) |-> entries[i].message]

\* Mutant: the entries the cache gave for context are taken out of it.
get_recent_sent_messages_consuming(sent, file, count, w) ==
    IF read_sent(sent) = <<>>
    THEN LET rd == read_cache(file, w)
             given == LastSlice(rd.cache, count)
             wr == write_cache(rd.file, SubSeq(rd.cache, 1, Len(rd.cache) - Len(given)), w)
         IN  [ret |-> Messages(given), file |-> wr.file,
              raised |-> rd.raised, reads |-> 1, heals |-> rd.writes,
              writes |-> rd.writes + 1, failed |-> rd.raised]
    ELSE [ret |-> Messages(LastSlice(read_sent(sent), count)), file |-> file,
          raised |-> FALSE, reads |-> 0, heals |-> 0, writes |-> 0, failed |-> FALSE]

\* get_recent_sent_messages(count): the sent history, or the cache when the
\* history is empty. Nothing is caught: a failed write of _read_cache
\* propagates.
get_recent_sent_messages(sent, file, count, w) ==
    IF read_sent(sent) = <<>>
    THEN LET rd == read_cache(file, w)
         IN  [ret |-> Messages(LastSlice(rd.cache, count)), file |-> rd.file,
              raised |-> rd.raised, reads |-> 1, heals |-> rd.writes,
              writes |-> rd.writes, failed |-> rd.raised]
    ELSE [ret |-> Messages(LastSlice(read_sent(sent), count)), file |-> file,
          raised |-> FALSE, reads |-> 0, heals |-> 0, writes |-> 0, failed |-> FALSE]

\* Mutant: sent[:20], the first entries are kept and the new one is dropped.
mark_as_sent_keeping_first(sent, message, ts, w) ==
    LET appended == Append(read_sent(sent), JDict(message, ts))
        kept == IF Len(appended) > SentLimit
                THEN SubSeq(appended, 1, SentLimit)
                ELSE appended
        wr == write_sent(sent, kept, w)
    IN  [ret |-> PyNone, sent |-> wr.file, failed |-> wr.raised]

\* mark_as_sent(message): the entry is appended, the last SentLimit entries
\* are kept and written. Every exception is caught and logged; the method
\* returns None either way.
mark_as_sent(sent, message, ts, w) ==
    LET appended == Append(read_sent(sent), JDict(message, ts))
        kept == IF Len(appended) > SentLimit
                THEN LastSlice(appended, SentLimit)
                ELSE appended
        wr == write_sent(sent, kept, w)
    IN  [ret |-> PyNone, sent |-> wr.file, failed |-> wr.raised]

\* ------------------------------------------------------------ llm_client.py

\* A character that is not ASCII is written as one element of two or three
\* ASCII characters: "l/" "z." "e," for the Polish letters, "(o)" for the bullet, "(bt)" for the backquote.

UpperCase == <<"A", "B", "C", "D", "E", "F", "G", "H", "I", "J", "K", "L", "M",
               "N", "O", "P", "Q", "R", "S", "T", "U", "V", "W", "X", "Y", "Z",
               "L/", "Z.", "E,">>
LowerCase == <<"a", "b", "c", "d", "e", "f", "g", "h", "i", "j", "k", "l", "m",
               "n", "o", "p", "q", "r", "s", "t", "u", "v", "w", "x", "y", "z",
               "l/", "z.", "e,">>

ToLower ==
    [c \in {UpperCase[i] : i \in 1..Len(UpperCase)} |->
        LowerCase[CHOOSE i \in 1..Len(UpperCase) : UpperCase[i] = c]]

LowerChar(c) == IF c \in DOMAIN ToLower THEN ToLower[c] ELSE c

\* str.lower()
RECURSIVE Lower(_)
Lower(s) ==
    IF Len(s) = 0 THEN <<>>
    ELSE IF Len(s) = 1 THEN <<LowerChar(s[1])>>
    ELSE LET half == Len(s) \div 2
         IN  Lower(SubSeq(s, 1, half)) \o Lower(SubSeq(s, half + 1, Len(s)))

IsDigit(c) == c \in {"0", "1", "2", "3", "4", "5", "6", "7", "8", "9"}

StartsWithAt(s, sub, i) ==
    /\ i >= 1
    /\ i + Len(sub) - 1 <= Len(s)
    /\ \A k \in 1..Len(sub) : s[i + k - 1] = sub[k]

\* str.find, from 1; 0 when sub is not in s.
Find(s, sub) ==
    LET places == {i \in 1..(Len(s) - Len(sub) + 1) : StartsWithAt(s, sub, i)}
    IN  IF places = {} THEN 0 ELSE CHOOSE i \in places : \A j \in places : i <= j

\* `sub in s`
Contains(s, sub) == \E i \in 1..(Len(s) - Len(sub) + 1) : StartsWithAt(s, sub, i)

\* example_patterns: the literal ones, and the two that end in digits and a colon.
ExamplePatterns ==
    <<<<"L", "u", "b", ":">>,
      <<"A", "l", "b", "o", ":">>,
      <<"L", "u", "b", " ", "t", "a", "k", ":">>,
      <<"P", "r", "z", "y", "k", "l/", "a", "d", ":">>,
      <<"P", "r", "z", "y", "k", "l/", "a", "d", "o", "w", "e">>,
      <<"M", "o", "z.", "e", ":">>,
      <<"I", " ", "j", "e", "s", "z", "c", "z", "e", ":">>,
      <<"N", "a", "s", "t", "e,", "p", "n", "i", "e", ":">>,
      <<"L", "u", "b", " ", "t", "e", "z.", ":">>,
      <<"E", "w", "e", "n", "t", "u", "a", "l", "n", "i", "e", ":">>>>
NumberedPatterns ==
    <<<<"W", "e", "r", "s", "j", "a", " ">>,
      <<"O", "p", "c", "j", "a", " ">>>>

\* re.search of the prefix, one digit or more, a colon.
ContainsNumbered(s, prefix) ==
    \E i \in 1..Len(s) :
        /\ StartsWithAt(s, prefix, i)
        /\ \E j \in (i + Len(prefix))..(Len(s) - 1) :
              /\ \A k \in (i + Len(prefix))..j : IsDigit(s[k])
              /\ s[j + 1] = ":"

\* has_examples: any pattern found, letter case ignored.
\* pattern.lower(), for each pattern.
LoweredExamplePatterns == [p \in 1..Len(ExamplePatterns) |-> Lower(ExamplePatterns[p])]
LoweredNumberedPatterns == [p \in 1..Len(NumberedPatterns) |-> Lower(NumberedPatterns[p])]

has_examples(message) ==
    LET lowered == Lower(message)
    IN  \/ \E p \in 1..Len(ExamplePatterns) : Contains(lowered, LoweredExamplePatterns[p])
        \/ \E p \in 1..Len(NumberedPatterns) :
              ContainsNumbered(lowered, LoweredNumberedPatterns[p])

Separators ==
    <<<<"\n", "\n", "L", "u", "b", ":">>,
      <<"\n", "\n", "A", "l", "b", "o", ":">>,
      <<"\n", "\n", "M", "o", "z.", "e", ":">>,
      <<"\n", "\n", "P", "r", "z", "y", "k", "l/", "a", "d", ":">>,
      <<"\n", "L", "u", "b", ":">>,
      <<"\n", "A", "l", "b", "o", ":">>,
      <<"\n", "M", "o", "z.", "e", ":">>,
      <<"\n", "N", "a", "s", "t", "e,", "p", "n", "i", "e", ":">>,
      <<"\n", "I", " ", "j", "e", "s", "z", "c", "z", "e", ":">>,
      <<"\n", "\n", "L", "u", "b", " ", "t", "a", "k", ":">>,
      <<"\n", "L", "u", "b", " ", "t", "e", "z.", ":">>,
      <<"\n", "E", "w", "e", "n", "t", "u", "a", "l", "n", "i", "e", ":">>>>

\* Mutant: the part after the separator is kept, not the part before it.
first_variant_second_part(message) ==
    LET found == {k \in 1..Len(Separators) : Contains(message, Separators[k])}
    IN  IF found = {}
        THEN message
        ELSE LET k == CHOOSE a \in found : \A b \in found : a <= b
                 rest == SubSeq(message, Find(message, Separators[k]) + Len(Separators[k]),
                                Len(message))
             IN  Strip(IF Contains(rest, Separators[k])
                       THEN SubSeq(rest, 1, Find(rest, Separators[k]) - 1)
                       ELSE rest)

\* The loop over separators: the text before the first separator of the list
\* that the message contains, stripped.
first_variant(message) ==
    LET found == {k \in 1..Len(Separators) : Contains(message, Separators[k])}
    IN  IF found = {}
        THEN message
        ELSE LET k == CHOOSE a \in found : \A b \in found : a <= b
             IN  Strip(SubSeq(message, 1, Find(message, Separators[k]) - 1))

\* re.sub of delimiter d, one character or more, d by the inner text: leftmost
\* match, shortest inner text, no line break inside.
RECURSIVE sub_delimited(_, _)
sub_delimited(s, d) ==
    LET n == Len(d)
        Closings(i) == {j \in (i + n + 1)..(Len(s) - n + 1) :
                            /\ StartsWithAt(s, d, j)
                            /\ \A k \in (i + n)..(j - 1) : s[k] # "\n"}
        openings == {i \in 1..Len(s) : StartsWithAt(s, d, i) /\ Closings(i) # {}}
    IN  IF openings = {}
        THEN s
        ELSE LET i == CHOOSE a \in openings : \A b \in openings : a <= b
                 j == CHOOSE a \in Closings(i) : \A b \in Closings(i) : a <= b
             IN  SubSeq(s, 1, i - 1) \o SubSeq(s, i + n, j - 1)
                    \o sub_delimited(SubSeq(s, j + n, Len(s)), d)

\* Bold, then italic, then code.
strip_markdown(message) ==
    sub_delimited(sub_delimited(sub_delimited(message, <<"*", "*">>), <<"*">>), <<"(bt)">>)

\* The leading list marker: digits, dashes, stars or bullets, then a dot or a
\* closing parenthesis, then blanks.
strip_leading_marker(message) ==
    LET IsMark(c) == IsDigit(c) \/ c \in {"-", "*", "(o)"}
        marks == {k \in 1..Len(message) : \A i \in 1..k : IsMark(message[i])}
    IN  IF marks = {}
        THEN message
        ELSE LET k == CHOOSE a \in marks : \A b \in marks : a >= b
             IN  IF k < Len(message) /\ message[k + 1] \in {".", ")"}
                 THEN LStrip(SubSeq(message, k + 2, Len(message)))
                 ELSE message

IsTerminal(c) == c \in {".", "!", "?"}

\* re.split on terminal punctuation followed by blanks.
RECURSIVE split_sentences(_)
split_sentences(s) ==
    LET RunEnd(i) == CHOOSE j \in i..Len(s) :
                        /\ \A k \in i..j : IsTerminal(s[k])
                        /\ j = Len(s) \/ ~IsTerminal(s[j + 1])
        starts == {i \in 1..Len(s) :
                      /\ IsTerminal(s[i])
                      /\ RunEnd(i) < Len(s)
                      /\ IsSpace(s[RunEnd(i) + 1])}
    IN  IF starts = {}
        THEN <<s>>
        ELSE LET i == CHOOSE a \in starts : \A b \in starts : a <= b
             IN  <<SubSeq(s, 1, i - 1)>>
                    \o split_sentences(LStrip(SubSeq(s, RunEnd(i) + 1, Len(s))))

MaxMessageLen == 500
ShortSentenceLen == 50
MinMessageLen == 10

\* The first sentence, or the first two when the first is short, of a message
\* that is still longer than 500 characters.
shorten(message) ==
    IF Len(message) > MaxMessageLen
    THEN LET sentences == split_sentences(message)
             first == sentences[1]
         IN  IF Len(first) < ShortSentenceLen /\ Len(sentences) > 1
             THEN Strip(first \o <<".", " ">> \o sentences[2] \o <<".">>)
             ELSE Strip(first \o (IF first # <<>> /\ IsTerminal(first[Len(first)])
                                  THEN <<>> ELSE <<".">>))
    ELSE message

\* _clean_message from the markdown on, up to its last strip: what is left
\* of the first variant.
finish_message(variant) == shorten(Strip(strip_leading_marker(strip_markdown(variant))))

\* `message` as _clean_message has it when it validates the length.
cleaned_text(raw_message) ==
    LET stripped == Strip(raw_message)
        variant == IF has_examples(stripped) THEN first_variant(stripped) ELSE stripped
    IN  finish_message(variant)

\* Mutant: a message is accepted whatever its length, unless it is empty.
clean_message_of_any_length(raw_message) ==
    IF raw_message = <<>> \/ cleaned_text(raw_message) = <<>>
    THEN PyNone
    ELSE PyStr(cleaned_text(raw_message))

\* _clean_message
clean_message(raw_message) ==
    IF raw_message = <<>>
    THEN PyNone
    ELSE LET message == cleaned_text(raw_message)
         IN  IF message = <<>> \/ Len(message) < MinMessageLen
             THEN PyNone
             ELSE PyStr(message)

\* The indicators of a capacity or rate-limit error, looked for in str(e).lower().
CapacityIndicators ==
    <<<<"o", "v", "e", "r", " ", "c", "a", "p", "a", "c", "i", "t", "y">>,
      <<"5", "0", "3">>,
      <<"r", "a", "t", "e", " ", "l", "i", "m", "i", "t">>,
      <<"4", "2", "9">>,
      <<"t", "o", "o", " ", "m", "a", "n", "y", " ", "r", "e", "q", "u", "e", "s", "t", "s">>,
      <<"s", "e", "r", "v", "i", "c", "e", " ", "u", "n", "a", "v", "a", "i", "l", "a", "b", "l", "e">>,
      <<"i", "n", "t", "e", "r", "n", "a", "l", "_", "s", "e", "r", "v", "e", "r", "_", "e", "r", "r", "o", "r">>>>

\* Mutant: every error is taken for a capacity error.
every_error_is_capacity_error(error_msg) == TRUE

is_capacity_error(error_msg) ==
    \E k \in 1..Len(CapacityIndicators) : Contains(error_msg, CapacityIndicators[k])

\* Mutant: the last attempt counts as one that can be retried.
attempts_remain_off_by_one(attempt, max_retries) == attempt < max_retries

\* `attempt < max_retries - 1`
attempts_remain(attempt, max_retries) == attempt < max_retries - 1

\* Mutant: the backoff starts at one second.
wait_time_from_one(attempt) == 2 ^ attempt

\* Mutant: the backoff starts at 4 seconds.
wait_time_from_four(attempt) == 2 ^ (attempt + 2)

\* `wait_time = 2 ** (attempt + 1)`
wait_time(attempt) == 2 ^ (attempt + 1)

\* What one call of the service gives: the response's text, or an exception
\* with its str(e).
Response(content) == [t |-> "response", text |-> content]
Exception(msg) == [t |-> "exception", text |-> msg]

\* What one pass of the retry loop decides.
Return(value) == [do |-> "return", value |-> value, wait_time |-> 0]
Raise(msg) == [do |-> "raise", value |-> PyStr(msg), wait_time |-> 0]
Retry(seconds) == [do |-> "retry", value |-> PyNone, wait_time |-> seconds]

\* Mutant: a rejected output is retried like a capacity error.
reject_output_and_retry(attempt) == Retry(wait_time(attempt))

\* `if not cleaned_message: return None`
reject_output(attempt) == Return(PyNone)

\* Texts the service answers with.
ResponseTexts ==
    {<<>>,
     <<" ", " ">>,
     <<"s", "h", "o", "r", "t">>,
     <<"T", "i", "m", "e", " ", "t", "o", " ", "r", "e", "a", "d">>,
     <<" ", "R", "e", "a", "d", " ", "y", "o", "u", "r", " ", "b", "o", "o", "k", " ">>,
     <<"*", "*", "R", "e", "a", "d", "*", "*", " ", "i", "t">>,
     <<"R", "e", "a", "d", " ", "i", "t", " ", "u", "p", " ">>,
     <<"*", "*", "R", "e", "a", "d", "*", "*", " ", "y", "o", "u", "r", " ", "b", "o", "o", "k">>,
     <<"R", "e", "a", "d", " ", "y", "o", "u", "r", " ", "b", "o", "o", "k", "\n", "L", "u", "b", ":", " ", "C", "z", "y", "t", "a", "j">>}

\* One pass of the loop of generate_message. _generate_openai_compatible and
\* _generate_gemini return the response's text stripped, or raise.
generate_attempt(outcome, attempt, max_retries) ==
    IF outcome.t = "response"
    THEN LET raw_message == Strip(outcome.text)
         IN  IF raw_message = <<>>
             THEN Return(PyNone)
             ELSE LET cleaned_message == clean_message(raw_message)
                  IN  IF ~Truthy(cleaned_message)
                      THEN reject_output(attempt)
                      ELSE Return(cleaned_message)
    ELSE LET error_msg == Lower(outcome.text)
         IN  IF is_capacity_error(error_msg) /\ attempts_remain(attempt, max_retries)
             THEN Retry(wait_time(attempt))
             ELSE Raise(outcome.text)

\* --------------------------------------- generate_message, attempt by attempt

DefaultMaxRetries == 3

\* Messages of the exceptions a call raises.
ErrorTexts ==
    {<<"E", "r", "r", "o", "r", " ", "c", "o", "d", "e", ":", " ", "4", "2", "9">>,
     <<"5", "0", "3", " ", "S", "e", "r", "v", "i", "c", "e", " ", "U", "n", "a", "v", "a", "i", "l", "a", "b", "l", "e">>,
     <<"4", "0", "1", " ", "U", "n", "a", "u", "t", "h", "o", "r", "i", "z", "e", "d">>,
     <<"I", "n", "v", "a", "l", "i", "d", " ", "A", "P", "I", " ", "k", "e", "y">>}

ServiceOutcomes ==
    {Response(s) : s \in ResponseTexts} \cup {Exception(s) : s \in ErrorTexts}

CallEvent(outcome) == [ev |-> "call", outcome |-> outcome, seconds |-> 0]
SleepEvent(seconds) == [ev |-> "sleep", outcome |-> Response(<<>>), seconds |-> seconds]

\* No _clean_message call was made yet.
NoClean == [raw |-> <<>>, ret |-> PyNone, again |-> FALSE, prior |-> PyNone]

GInit ==
    /\ clean_op = NoClean
    /\ gen_pc = "idle"
    /\ gen_max_retries = 0
    /\ gen_attempt = 0
    /\ gen_trace = <<>>
    /\ gen_result = PyNone

\* generate_message(prompt, max_retries) is called.
GenStart(max_retries) ==
    /\ gen_pc # "running"
    /\ gen_pc' = "running"
    /\ gen_max_retries' = max_retries
    /\ gen_attempt' = 0
    /\ gen_trace' = <<>>
    /\ gen_result' = PyNone

\* One pass of `for attempt in range(max_retries)`: the call, and the sleep
\* before the next pass when the loop goes on.
GenAttempt(outcome) ==
    /\ gen_pc = "running"
    /\ gen_attempt < gen_max_retries
    /\ LET step == generate_attempt(outcome, gen_attempt, gen_max_retries)
       IN  /\ gen_trace' = IF step.do = "retry"
                           THEN gen_trace \o <<CallEvent(outcome), SleepEvent(step.wait_time)>>
                           ELSE Append(gen_trace, CallEvent(outcome))
           /\ gen_pc' = CASE step.do = "retry" -> "running"
                          [] step.do = "return" -> "returned"
                          [] OTHER -> "raised"
           /\ gen_attempt' = IF step.do = "retry" THEN gen_attempt + 1 ELSE gen_attempt
           /\ gen_result' = step.value
    /\ UNCHANGED gen_max_retries

\* generate_message has ended and its caller has taken what it gave.
GenForget ==
    /\ gen_pc \in {"returned", "raised"}
    /\ gen_pc' = "idle"
    /\ gen_max_retries' = 0
    /\ gen_attempt' = 0
    /\ gen_trace' = <<>>
    /\ gen_result' = PyNone

\* The loop ran out of passes: the `return None` after it.
GenLoopEnd ==
    /\ gen_pc = "running"
    /\ gen_attempt >= gen_max_retries
    /\ gen_pc' = "returned"
    /\ gen_result' = PyNone
    /\ UNCHANGED <<gen_max_retries, gen_attempt, gen_trace>>

\* ------------------------------------------- _clean_message, call by call

\* The texts _clean_message is given: list markers, then a text, then
\* alternates, each after a line break and a marker phrase.
Markers == {<<"1", ".", " ">>, <<"-", ")", " ">>}
Bodies ==
    {<<>>,
     <<"R", "e", "m", "e", "m", "b", "e", "r", " ", "y", "o", "u", "r", " ", "b", "o", "o", "k", "!">>,
     <<"*", "*", "R", "e", "a", "d", "*", "*", " ", "i", "t">>,
     <<"R", "e", "a", "d", " ", "i", "t", " ", "u", "p">>,
     <<"s", "h", "o", "r", "t">>,
     <<" ", "R", "e", "a", "d", " ", "y", "o", "u", "r", " ", "b", "o", "o", "k", " ">>,
     <<"*", "R", "e", "a", "d", "*", " ", "(bt)", "y", "o", "u", "r", "(bt)", " ", "b", "o", "o", "k">>,
     <<"*", "*", "*", "*", "R", "e", "a", "d", " ", "y", "o", "u", "r", " ", "b", "o", "o", "k", "*", "*", "*", "*">>}
Alternates ==
    {<<"\n", "\n", "L", "u", "b", ":", " ", "D", "o", "n", "'", "t", " ", "f", "o", "r", "g", "e", "t", " ", "t", "o", " ", "r", "e", "a", "d", "!">>,
     <<"\n", "L", "u", "b", ":", " ", "C", "z", "y", "t", "a", "j">>,
     <<"\n", "M", "o", "z.", "e", ":", " ", "T", "e", "r", "a", "z">>,
     <<"\n", "\n", "O", "r", ":", " ", "D", "o", "n", "'", "t", " ", "f", "o", "r", "g", "e", "t", " ", "t", "o", " ", "r", "e", "a", "d", "!">>}

\* The concatenations of at most n elements of S.
RECURSIVE Runs(_, _)
Runs(S, n) ==
    IF n = 0 THEN {<<>>} ELSE Runs(S, n - 1) \cup {r \o e : r \in Runs(S, n - 1), e \in S}

RECURSIVE Repeat(_, _)
Repeat(s, n) == IF n = 0 THEN <<>> ELSE s \o Repeat(s, n - 1)

\* A sentence of more than 500 characters without a full stop.
LongSentence == Repeat(<<"r", "e", "a", "d", " ">>, 100) \o <<"n", "o", "w">>

\* Texts long enough to be shortened to their first sentences.
LongTexts ==
    {<<"H", "i", ".", " ", ".", " ">> \o LongSentence,
     <<"R", "e", "a", "d", " ", "n", "o", "w", "!", " ">> \o LongSentence \o <<".">>,
     LongSentence \o <<".", " ", "M", "o", "r", "e">>,
     <<"G", "o", "!", " ", "L", "u", "b", ":", " ", "S", "t", "o", "p", ".", " ">> \o LongSentence}

CleanInputs ==
    {lead \o body \o tail :
        lead \in Runs(Markers, MaxMarkers), body \in Bodies, tail \in Runs(Alternates, MaxAlternates)}
        \cup LongTexts

\* _clean_message(raw_message), the first call. The function keeps nothing
\* from one call to the next, so one call and one more on its result are
\* all a run needs.
CleanMessage(raw_message) ==
    /\ clean_op = NoClean
    /\ clean_op' = [raw |-> raw_message, ret |-> clean_message(raw_message),
                    again |-> FALSE, prior |-> PyNone]

\* _clean_message is given what the call before it returned.
CleanAgain ==
    /\ clean_op.ret.t = "str"
    /\ ~clean_op.again
    /\ clean_op' = [raw |-> clean_op.ret.s, ret |-> clean_message(clean_op.ret.s),
                    again |-> TRUE, prior |-> clean_op.ret]

\* -------------------------------------------------------------- scheduler.py

\* A datetime is a number of seconds, a date a number of days, both counted
\* from midnight of date 0.
SecondsPerDay == 86400

TimeOfDay(hour, minute) == [hour |-> hour, minute |-> minute]

\* datetime.now().date()
DateOf(t) == t \div SecondsPerDay

\* datetime.combine(date, time)
Combine(date, tod) == date * SecondsPerDay + tod.hour * 3600 + tod.minute * 60

\* next_reminder_time: None, or a datetime.
NoTime == [set |-> FALSE, at |-> 0]
At(t) == [set |-> TRUE, at |-> t]

MinutesOf(tod) == tod.hour * 60 + tod.minute

\* Mutant: a draw may go one minute past the end of the window.
RandomMinutesPastEnd(start, end) == MinutesOf(start)..(MinutesOf(end) + 1)

\* What random.randint(start_minutes, end_minutes) can draw.
RandomMinutes(start, end) == MinutesOf(start)..MinutesOf(end)

\* _generate_random_time, random_minutes being the draw.
generate_random_time(date, random_minutes) ==
    Combine(date, TimeOfDay(random_minutes \div 60, random_minutes % 60))

\* Mutant: the fixed time is a minute after the start time.
generate_fixed_time_a_minute_late(start, date) == Combine(date, start) + 60

\* _generate_fixed_time
generate_fixed_time(start, date) == Combine(date, start)

\* Mutant: today's time is kept when the clock stands exactly at it.
schedule_next_reminder_at_or_before(start, rand, t1, t2, r1, r2) ==
    LET today == DateOf(t1)
        tomorrow == today + 1
        today_reminder == IF rand
                          THEN generate_random_time(today, r1)
                          ELSE generate_fixed_time(start, today)
    IN  IF t2 <= today_reminder
        THEN today_reminder
        ELSE IF rand
             THEN generate_random_time(tomorrow, r2)
             ELSE generate_fixed_time(start, tomorrow)

\* schedule_next_reminder: t1 is the clock reading the date is taken from, t2
\* the reading compared with today's time, r1 and r2 the draws for today and
\* for tomorrow.
schedule_next_reminder(start, rand, t1, t2, r1, r2) ==
    LET today == DateOf(t1)
        tomorrow == today + 1
        today_reminder == IF rand
                          THEN generate_random_time(today, r1)
                          ELSE generate_fixed_time(start, today)
    IN  IF t2 < today_reminder
        THEN today_reminder
        ELSE IF rand
             THEN generate_random_time(tomorrow, r2)
             ELSE generate_fixed_time(start, tomorrow)

\* Mutant: the reminder is due only after its time.
is_due_strictly_after(t, next) == t > next

\* `now >= self.next_reminder_time`
is_due(t, next) == t >= next

\* Mutant: the check that sets the schedule also answers whether it is due.
should_send_reminder_at_once(next, start, rand, t1, t2, r1, r2) ==
    LET scheduled == IF next.set THEN next.at
                     ELSE schedule_next_reminder(start, rand, t1, t2, r1, r2)
    IN  [ret |-> is_due(t2, scheduled), next |-> At(scheduled)]

\* Mutant: a reminder that is due is put off to the next day by the check itself.
should_send_reminder_advancing(next, start, rand, t1, t2, r1, r2) ==
    IF ~next.set
    THEN [ret |-> FALSE, next |-> At(schedule_next_reminder(start, rand, t1, t2, r1, r2))]
    ELSE [ret |-> is_due(t2, next.at),
          next |-> IF is_due(t2, next.at) THEN At(next.at + SecondsPerDay) ELSE next]

\* should_send_reminder: with no reminder scheduled it schedules one (readings
\* t1, t2) and answers False; otherwise it reads the clock (t2) and compares.
should_send_reminder(next, start, rand, t1, t2, r1, r2) ==
    IF ~next.set
    THEN [ret |-> FALSE, next |-> At(schedule_next_reminder(start, rand, t1, t2, r1, r2))]
    ELSE [ret |-> is_due(t2, next.at), next |-> next]

\* get_seconds_until_next
get_seconds_until_next(next, t) ==
    IF ~next.set THEN 0 ELSE IF next.at - t > 0 THEN next.at - t ELSE 0

\* Mutant: the tiers begin at 3600 and at 600 seconds, not after them.
get_next_check_interval_from_threshold(next, t) ==
    LET seconds_until == get_seconds_until_next(next, t)
    IN  IF seconds_until >= 3600 THEN 300
        ELSE IF seconds_until >= 600 THEN 60
        ELSE 10

\* get_next_check_interval
get_next_check_interval(next, t) ==
    LET seconds_until == get_seconds_until_next(next, t)
    IN  IF seconds_until > 3600 THEN 300
        ELSE IF seconds_until > 600 THEN 60
        ELSE 10

\* ------------------------------------- the scheduler, operation by operation

\* The configured windows (start, end), and the seconds of a day at which the
\* clock is read: around midnight, around the windows' bounds, and an hour
\* and ten minutes before 14:00, to the second.
Windows == {<<TimeOfDay(14, 0), TimeOfDay(14, 2)>>, <<TimeOfDay(0, 0), TimeOfDay(0, 1)>>}
ClockPoints == {0, 30, 60, 46799, 46800, 49799, 49800, 50399, 50400, 50430, 50520, 86399}
Instants == {d * SecondsPerDay + p : d \in 0..MaxDay, p \in ClockPoints}

\* The two clock readings of one operation: the same instant, or two with no
\* instant of the clock between them.
InstantPairs ==
    {<<t1, t2>> \in Instants \X Instants :
        /\ t1 <= t2
        /\ ~\E t \in Instants : t1 < t /\ t < t2}

\* __init__: range_end is range_start when the time is not randomized.
SInit ==
    /\ \E w \in Windows :
          /\ range_start = w[1]
          /\ randomize \in BOOLEAN
          /\ time_range_end \in IF randomize THEN {w[2]} ELSE {v[2] : v \in Windows}
          /\ range_end = IF randomize THEN time_range_end ELSE range_start
    /\ next_reminder_time = NoTime
    /\ now = 0
    /\ s_op = [name |-> "init", ret |-> PyNone, pre |-> NoTime, t1 |-> 0, t2 |-> 0, r1 |-> 0]
    /\ due_streak = 0

\* The scheduler of a specification that does not use it.
SIdle ==
    /\ range_start = TimeOfDay(14, 0)
    /\ range_end = TimeOfDay(14, 2)
    /\ randomize = TRUE
    /\ time_range_end = TimeOfDay(14, 2)
    /\ next_reminder_time = NoTime
    /\ now = 0
    /\ s_op = [name |-> "init", ret |-> PyNone, pre |-> NoTime, t1 |-> 0, t2 |-> 0, r1 |-> 0]
    /\ due_streak = 0

\* Ghost: the draw for today as s_op records it. It is recorded for the
\* scheduler on its own, not within a run of the application.
Drawn(r) == IF app_pc = "off" THEN r ELSE 0

ScheduleNextReminder(t1, t2) ==
    \E r1, r2 \in RandomMinutes(range_start, range_end) :
        /\ t1 <= t2
        /\ next_reminder_time' =
                At(schedule_next_reminder(range_start, randomize, t1, t2, r1, r2))
        /\ now' = t2
        /\ s_op' = [name |-> "schedule_next_reminder", ret |-> PyInt(next_reminder_time'.at),
                    pre |-> next_reminder_time, t1 |-> t1, t2 |-> t2, r1 |-> Drawn(r1)]
        /\ due_streak' = 0
        /\ UNCHANGED <<range_start, range_end, randomize, time_range_end>>

ShouldSendReminder(t1, t2) ==
    \E r1, r2 \in IF next_reminder_time.set THEN {0} ELSE RandomMinutes(range_start, range_end) :
        /\ t1 <= t2
        /\ next_reminder_time.set => t1 = t2
        /\ LET r == should_send_reminder(next_reminder_time, range_start, randomize,
                                         t1, t2, r1, r2)
           IN  /\ next_reminder_time' = r.next
               /\ s_op' = [name |-> "should_send_reminder", ret |-> PyBool(r.ret),
                           pre |-> next_reminder_time, t1 |-> t1, t2 |-> t2, r1 |-> Drawn(r1)]
               /\ due_streak' = IF ~r.ret THEN 0
                                ELSE IF t2 < now THEN 1
                                ELSE IF due_streak < MaxStreak THEN due_streak + 1
                                ELSE MaxStreak
        /\ now' = t2
        /\ UNCHANGED <<range_start, range_end, randomize, time_range_end>>

GetNextCheckInterval(t) ==
        /\ now' = t
        /\ s_op' = [name |-> "get_next_check_interval",
                    ret |-> PyInt(get_next_check_interval(next_reminder_time, t)),
                    pre |-> next_reminder_time, t1 |-> t, t2 |-> t, r1 |-> 0]
        /\ due_streak' = IF t < now THEN 0 ELSE due_streak
        /\ UNCHANGED <<range_start, range_end, randomize, time_range_end, next_reminder_time>>

\* ------------------------------------------------- the cache, operation by operation

\* The storage works: every write succeeds.
OkWrites == <<"ok", "ok">>

\* Texts and other values a caller passes to add_message.
Texts == {<<>>, <<" ">>, <<"a">>, <<"b">>, <<" ", "a">>, <<"c", " ">>}
AddInputs == {PyStr(s) : s \in Texts} \cup {PyNone, PyInt(7)}

\* Array elements a stored file may hold, the corrupted ones included.
StoredTexts == {<<" ">>, <<"a">>, <<"b">>, <<" ", "a">>}
StoredEntries ==
    {JDict(PyStr(s), 0) : s \in StoredTexts}
        \cup {JDict(PyInt(7), 0), JDict(PyNone, 0), JDictNoMessage(0), JOther(0)}

\* The stripped texts of the valid entries of a list of entries, in order.
RECURSIVE PendingTexts(_)
PendingTexts(entries) ==
    IF entries = <<>>
    THEN <<>>
    ELSE IF ValidEntry(Head(entries))
         THEN <<Strip(Head(entries).message.s)>> \o PendingTexts(Tail(entries))
         ELSE PendingTexts(Tail(entries))

NoDuplicateTexts(entries) ==
    LET texts == PendingTexts(entries)
    IN  \A i, j \in 1..Len(texts) : i # j => texts[i] # texts[j]

\* Entries as they lie in a file written earlier: stamped in order.
Stamped(entries) == [i \in 1..Len(entries) |-> [entries[i] EXCEPT !.timestamp = i]]

InitFiles ==
    {FileNotList, FileUnreadable}
        \cup {FileList(Stamped(es)) :
                es \in {e \in UNION {[1..k -> StoredEntries] : k \in 0..MaxInit} :
                            NoDuplicateTexts(e)}}

\* The last call of a CacheManager method: what it was given and gave, the
\* messages.json and the sent_messages.json it found, what it did to the
\* storage (r, see Outcome), whether it raised, and for a
\* validate_and_repair_cache that follows another the writes of that one.
QOp(name, arg, ret, pre, r, prior) ==
    [name |-> name, arg |-> arg, ret |-> ret, pre |-> pre, sent |-> sent_file,
     reads |-> r.reads, heals |-> r.heals, writes |-> r.writes, failed |-> r.failed,
     raised |-> r.raised, prior |-> prior]

\* A caught exception: the call returned.
Returned(r) ==
    [reads |-> r.reads, heals |-> r.heals, writes |-> r.writes, failed |-> r.failed,
     raised |-> FALSE]

NoStorage == [reads |-> 0, heals |-> 0, writes |-> 0, failed |-> FALSE, raised |-> FALSE]

QInit ==
    /\ cache_file \in InitFiles
    /\ stamp = Len(cache_file.entries)
    /\ q_op = QOp("init", PyNone, PyNone, cache_file, NoStorage, -1)
    /\ enq_log = <<>>
    /\ deq_log = <<>>

\* CacheManager.__init__ on a directory without sent_messages.json.
HIdle ==
    /\ sent_file = FileList(<<>>)
    /\ sent_log = <<>>

\* The cache after a call add_message(message) that gave r.
Added(r, message) ==
    /\ cache_file' = r.file
    /\ stamp' = stamp + 1
    /\ q_op' = QOp("add_message", message, PyBool(r.ret), cache_file, Returned(r), -1)
    /\ enq_log' = IF r.ret
                  THEN Append(enq_log, [id |-> stamp + 1, text |-> Strip(message.s)])
                  ELSE enq_log
    /\ UNCHANGED deq_log

AddMessage(message, ws) ==
    /\ stamp < MaxStamp
    /\ Added(add_message(cache_file, message, stamp + 1, ws), message)

\* The timestamps of the entries of `pre` holding text `s` that `post` no longer holds.
Taken(pre, post, s) ==
    {pre[i].timestamp : i \in {k \in 1..Len(pre) :
        /\ pre[k].message.t = "str"
        /\ Strip(pre[k].message.s) = s
        /\ \A j \in 1..Len(post) : post[j].timestamp # pre[k].timestamp}}

GetOldestMessage(ws) ==
    LET r == get_oldest_message(cache_file, ws)
    IN  /\ cache_file' = r.file
        /\ q_op' = QOp("get_oldest_message", PyNone, r.ret, cache_file, Returned(r), -1)
        /\ deq_log' = IF r.ret.t = "str"
                      THEN Append(deq_log,
                               [text |-> r.ret.s,
                                ids |-> Taken(cache_file.entries, r.file.entries, r.ret.s)])
                      ELSE deq_log
        /\ UNCHANGED <<stamp, enq_log>>

ValidateAndRepair(ws) ==
    LET r == validate_and_repair_cache(cache_file, ws)
    IN  /\ cache_file' = r.file
        /\ q_op' = QOp("validate_and_repair_cache", PyNone, PyBool(r.ret), cache_file,
                       Returned(r),
                       IF q_op.name = "validate_and_repair_cache" THEN q_op.writes ELSE -1)
        /\ UNCHANGED <<stamp, enq_log, deq_log>>

\* get_cache_count(): what it returns is only there when it did not raise.
GetCacheCount(w) ==
    LET r == get_cache_count(cache_file, w)
    IN  /\ cache_file' = r.file
        /\ q_op' = QOp("get_cache_count", PyNone, IF r.raised THEN PyNone ELSE PyInt(r.ret),
                       cache_file, r, -1)
        /\ UNCHANGED <<stamp, enq_log, deq_log>>

\* needs_refill() of a manager constructed over the file with cache_size = size.
NeedsRefill(size, w) ==
    LET r == needs_refill(cache_file, size, w)
    IN  /\ cache_file' = r.file
        /\ q_op' = QOp("needs_refill", PyInt(size),
                       IF r.raised THEN PyNone ELSE PyInt(r.ret), cache_file, r, -1)
        /\ UNCHANGED <<stamp, enq_log, deq_log>>

\* is_cache_full() of a manager constructed over the file with cache_size = size.
IsCacheFull(size, w) ==
    LET r == is_cache_full(cache_file, size, w)
    IN  /\ cache_file' = r.file
        /\ q_op' = QOp("is_cache_full", PyInt(size),
                       IF r.raised THEN PyNone ELSE PyBool(r.ret), cache_file, r, -1)
        /\ UNCHANGED <<stamp, enq_log, deq_log>>

\* What the storage does at a write.
StorageAnswers == {"ok", "open", "dump"}

\* What mark_as_sent is called with: at the first call a text, a text with a
\* blank ahead or None (nothing is checked), from then on the text "m" with
\* the number of the call, so that every entry is told from the others.
SentInputs(k) ==
    LET Digits == <<"0", "1", "2", "3", "4", "5", "6", "7", "8", "9">>
    IN  IF k = 1
        THEN {PyStr(<<"a">>), PyStr(<<" ", "b">>), PyNone}
        ELSE {PyStr(<<"m", Digits[(k \div 10) + 1], Digits[(k % 10) + 1]>>)}

\* The counts get_recent_sent_messages is called with.
RecentCounts == {0, 1, 2, 5, SentLimit, SentLimit + 1}

\* mark_as_sent(message); the entry's timestamp is the number of the call.
MarkAsSent(message, w) ==
    /\ Len(sent_log) < MaxSent
    /\ LET r == mark_as_sent(sent_file, message, Len(sent_log) + 1, w)
       IN  /\ sent_file' = r.sent
           /\ sent_log' = Append(sent_log, message)
           /\ q_op' = QOp("mark_as_sent", message, r.ret, cache_file,
                          [reads |-> 0, heals |-> 0, writes |-> 1, failed |-> r.failed,
                           raised |-> FALSE], -1)
    /\ UNCHANGED <<cache_file, stamp, enq_log, deq_log>>

\* get_recent_sent_messages(count).
GetRecentSentMessages(count, w) ==
    LET r == get_recent_sent_messages(sent_file, cache_file, count, w)
    IN  /\ cache_file' = r.file
        /\ q_op' = QOp("get_recent_sent_messages", PyInt(count),
                       IF r.raised THEN PyNone ELSE PyList(r.ret), cache_file, r, -1)
        /\ UNCHANGED <<stamp, enq_log, deq_log, hvars>>

\* ------------------------------------------------------------------ main.py

\* DiscordWebhook.send_message: False without a configured URL; otherwise what
\* requests.post and raise_for_status do, a RequestException giving False.
PlaceholderUrls == {"YOUR_MAIN_WEBHOOK_URL_HERE", "YOUR_DEBUG_WEBHOOK_URL_HERE"}

send_message(url, post) ==
    IF url = "" \/ url \in PlaceholderUrls
    THEN FALSE
    ELSE post = "ok"

send_reminder(main_url, post) == send_message(main_url, post)

\* send_message catches RequestException only: any other exception that
\* requests.post raises leaves it, and send_reminder, as an exception.
send_message_raises(url, post) ==
    /\ ~(url = "" \/ url \in PlaceholderUrls)
    /\ post = "Exception"

\* _generate_and_cache_message, after generate_message has ended: the message
\* is added to the cache and returned; None when nothing was generated or
\* generate_message raised. What add_message returns is not looked at.
generate_and_cache_message(file, pc, result, ts, ws) ==
    IF pc = "returned" /\ Truthy(result)
    THEN LET r == add_message(file, result, ts, ws)
         IN  [ret |-> result, file |-> r.file, added |-> r]
    ELSE [ret |-> PyNone, file |-> file, added |-> Outcome(FALSE, file, 0, 0, 0, FALSE)]

\* Mutant: a new message is requested after every send, the cache full or not.
refill_cache_always(file, size, w) ==
    LET n == needs_refill(file, size, w)
    IN  [needed |-> n.ret, generate |-> TRUE, file |-> n.file]

\* _refill_cache up to its request: needs_refill, and whether a message is
\* to be generated.
refill_cache(file, size, w) ==
    LET n == needs_refill(file, size, w)
    IN  [needed |-> n.ret, generate |-> n.ret > 0, file |-> n.file]

\* Mutant: a message the transport did not take is not put back.
drop_unsent_message(file, message, ts, ws) == Outcome(FALSE, file, 0, 0, 0, FALSE)

\* Mutant: the message goes back to the head of the cache.
readd_unsent_message_at_head(file, message, ts, ws) ==
    add_message_at_head(file, message, ts, ws)

\* The else branch of _send_reminder: the message goes back into the cache.
readd_unsent_message(file, message, ts, ws) == add_message(file, message, ts, ws)

\* --------------------------------------- the application, step by step

\* The service's answers and the transport's, as the application meets them.
AppServiceOutcomes ==
    {Response(<<" ", "R", "e", "a", "d", " ", "y", "o", "u", "r", " ", "b", "o", "o", "k", " ">>),
     Response(<<"s", "h", "o", "r", "t">>),
     Exception(<<"E", "r", "r", "o", "r", " ", "c", "o", "d", "e", ":", " ", "4", "2", "9">>),
     Exception(<<"4", "0", "1", " ", "U", "n", "a", "u", "t", "h", "o", "r", "i", "z", "e", "d">>)}

WebhookUrls == {"YOUR_MAIN_WEBHOOK_URL_HERE", "https://discord.example/api/webhooks/1"}
PostOutcomes == {"ok", "RequestException", "Exception"}

NoCycle ==
    [message |-> PyNone, before |-> 0, post |-> "none", success |-> PyNone, done |-> FALSE,
     stamp0 |-> 0, needed |-> -1, generates |-> 0, enqueues |-> 0]

NoLoop == [needed |-> 0, i |-> 0, success_count |-> 0, found |-> -1]

\* The instants at which the application reads the clock: the bounds of the
\* windows and the last second of each day.
AppClockPoints == {0, 60, 50400, 50520, 86399}
AppInstants == {d * SecondsPerDay + p : d \in 0..MaxAppDay, p \in AppClockPoints}

\* The instant of the clock after t, t itself when it is the last.
NextInstant ==
    [t \in AppInstants |->
        LET later == {u \in AppInstants : u > t}
        IN  IF later = {} THEN t ELSE CHOOSE u \in later : \A v \in later : u <= v]

\* The clock readings that may follow instant t when the program does not
\* sleep in between: t and the next instant of the clock.
Elapse(t) == {t, NextInstant[t]}

\* The two clock readings of one schedule_next_reminder call.
Readings == {<<t1, t2>> \in AppInstants \X AppInstants : t2 \in Elapse(t1)}

\* The clock readings that may follow a sleep up to t: the first instant of
\* the clock from t on, and the one after it.
Awake(t) ==
    LET later == {u \in AppInstants : u >= t}
    IN  IF later = {}
        THEN {}
        ELSE Elapse(CHOOSE u \in later : \A v \in later : u <= v)

\* ReminderApp.__init__ under each configuration.
AInit ==
    /\ app_pc = "initialize_cache"
    /\ is_sending = FALSE
    /\ cache_size \in 0..MaxCacheSize
    /\ main_webhook_url \in WebhookUrls
    /\ wake = 0
    /\ cycle = NoCycle
    /\ init_loop = NoLoop

\* The application of a specification that does not run it.
AIdle ==
    /\ app_pc = "off"
    /\ is_sending = FALSE
    /\ cache_size = 1
    /\ main_webhook_url = ""
    /\ wake = 0
    /\ cycle = NoCycle
    /\ init_loop = NoLoop

\* A call of _generate_and_cache_message that generate_message has ended:
\* the cache after it.
Cached(r) ==
    IF Truthy(r.ret)
    THEN /\ stamp < MaxStamp
         /\ Added(r.added, r.ret)
    ELSE UNCHANGED qvars

\* Mutant: next reminder is scheduled only after a reminder that was sent.
SendReturnsAndSchedulesOnSuccess(c, success, post) ==
    /\ is_sending' = FALSE
    /\ cycle' = [c EXCEPT !.success = PyBool(success), !.post = post, !.done = TRUE]
    /\ app_pc' = IF success THEN "schedule_next" ELSE "wait"

\* Mutant: an exception of the transport that is not a RequestException
\* leaves _send_reminder and ends run().
SendReturnsOrRaises(c, success, post) ==
    /\ is_sending' = FALSE
    /\ cycle' = [c EXCEPT !.success = PyBool(success), !.post = post, !.done = TRUE]
    /\ app_pc' = IF post = "Exception" THEN "crashed" ELSE "schedule_next"

\* Mutant: a send is reported successful only when the refill after it added
\* the message it asked for.
SendReturnsWhatRefillGave(c, success, post) ==
    /\ is_sending' = FALSE
    /\ cycle' = [c EXCEPT !.success = PyBool(success /\ c.enqueues = c.generates),
                          !.post = post, !.done = TRUE]
    /\ app_pc' = "schedule_next"

\* _send_reminder returns: the finally clause. c is the cycle with the calls
\* counted so far.
SendReturns(c, success, post) ==
    /\ is_sending' = FALSE
    /\ cycle' = [c EXCEPT !.success = PyBool(success), !.post = post, !.done = TRUE]
    /\ app_pc' = "schedule_next"

\* _initialize_cache up to its first request: validate_and_repair_cache, then
\* needs_refill.
AppInitializeCache ==
    /\ app_pc = "initialize_cache"
    /\ LET v == validate_and_repair_cache(cache_file, OkWrites)
           n == needs_refill(v.file, cache_size, "ok")
           found == get_cache_count(v.file, "ok").ret
       IN  /\ cache_file' = n.file
           /\ q_op' = QOp("validate_and_repair_cache", PyNone, PyBool(v.ret), cache_file,
                          Returned(v), -1)
           /\ IF n.ret = 0
              THEN /\ app_pc' = "schedule_first"
                   /\ init_loop' = [NoLoop EXCEPT !.found = found]
                   /\ UNCHANGED gvars
              ELSE /\ app_pc' = "init_generate"
                   /\ init_loop' = [needed |-> n.ret, i |-> 0, success_count |-> 0,
                                    found |-> found]
                   /\ GenStart(DefaultMaxRetries)
    /\ UNCHANGED <<stamp, enq_log, deq_log, svars,
                   is_sending, cache_size, main_webhook_url, wake, cycle>>

\* One call of the service within generate_message.
AppGenAttempt(outcome) ==
    /\ app_pc \in {"init_generate", "refill_generate"}
    /\ GenAttempt(outcome)
    /\ UNCHANGED <<qvars, svars, avars>>

\* One pass of `for i in range(needed)` from the end of generate_message on;
\* after the last pass, RuntimeError when no message was generated.
AppInitGenerated ==
    /\ app_pc = "init_generate"
    /\ gen_pc \in {"returned", "raised"}
    /\ LET r == generate_and_cache_message(cache_file, gen_pc, gen_result, stamp + 1, OkWrites)
           success_count == init_loop.success_count + (IF Truthy(r.ret) THEN 1 ELSE 0)
           i == init_loop.i + 1
       IN  /\ Cached(r)
           /\ IF i < init_loop.needed
              THEN /\ init_loop' = [init_loop EXCEPT !.i = i, !.success_count = success_count]
                   /\ GenStart(DefaultMaxRetries)
                   /\ app_pc' = "init_generate"
              ELSE /\ init_loop' = [NoLoop EXCEPT !.found = init_loop.found]
                   /\ app_pc' = IF success_count = 0 THEN "crashed" ELSE "schedule_first"
                   /\ GenForget
    /\ UNCHANGED <<svars, is_sending, cache_size, main_webhook_url, wake, cycle>>

\* run: `self.scheduler.schedule_next_reminder()` before the loop.
AppScheduleFirst(t1, t2) ==
    /\ app_pc = "schedule_first"
    /\ ScheduleNextReminder(t1, t2)
    /\ app_pc' = "check"
    /\ UNCHANGED <<qvars, gvars, is_sending, cache_size, main_webhook_url, wake, cycle, init_loop>>

\* The loop's `if self.scheduler.should_send_reminder()`, read once the sleep
\* is over.
AppCheck(t) ==
    /\ app_pc = "check"
    /\ t \in Awake(IF wake > now THEN wake ELSE now)
    /\ ShouldSendReminder(t, t)
    /\ app_pc' = IF s_op'.ret = PyBool(TRUE) THEN "send" ELSE "wait"
    /\ UNCHANGED <<qvars, gvars, is_sending, cache_size, main_webhook_url, wake, cycle, init_loop>>

\* _send_reminder up to the transport: the message is taken from the cache.
AppSendReminder ==
    /\ app_pc = "send"
    /\ ~is_sending
    /\ GetOldestMessage(OkWrites)
    /\ LET message == q_op'.ret
           started == [message |-> message,
                       before |-> Len(PendingTexts(cache_file.entries)),
                       post |-> "none", success |-> PyNone, done |-> FALSE,
                       stamp0 |-> stamp, needed |-> -1, generates |-> 0, enqueues |-> 0]
       IN  IF ~Truthy(message)
           THEN /\ is_sending' = FALSE
                /\ cycle' = [started EXCEPT !.success = PyBool(FALSE), !.done = TRUE]
                /\ app_pc' = "schedule_next"
           ELSE /\ is_sending' = TRUE
                /\ cycle' = started
                /\ app_pc' = "transport"
    /\ UNCHANGED <<gvars, svars, cache_size, main_webhook_url, wake, init_loop>>

\* _send_reminder from webhook.send_reminder on: _refill_cache up to its
\* request when the message was sent, the message put back when it was not,
\* the except clause when send_reminder raised.
AppTransport(post) ==
    /\ app_pc = "transport"
    /\ IF send_message_raises(main_webhook_url, post)
       THEN /\ SendReturns(cycle, FALSE, post)
            /\ UNCHANGED <<qvars, gvars>>
       ELSE IF send_reminder(main_webhook_url, post)
       THEN LET n == refill_cache(cache_file, cache_size, "ok")
                asked == [cycle EXCEPT !.needed = n.needed]
            IN  /\ cache_file' = n.file
                /\ UNCHANGED <<stamp, q_op, enq_log, deq_log>>
                /\ IF n.generate
                   THEN /\ GenStart(DefaultMaxRetries)
                        /\ app_pc' = "refill_generate"
                        /\ cycle' = [asked EXCEPT !.success = PyBool(TRUE), !.post = post,
                                                  !.generates = @ + 1]
                        /\ UNCHANGED is_sending
                   ELSE /\ SendReturns(asked, TRUE, post)
                        /\ UNCHANGED gvars
       ELSE /\ stamp < MaxStamp
            /\ Added(readd_unsent_message(cache_file, cycle.message, stamp + 1, OkWrites),
                     cycle.message)
            /\ SendReturns([cycle EXCEPT !.enqueues = @ + 1], FALSE, post)
            /\ UNCHANGED gvars
    /\ UNCHANGED <<svars, cache_size, main_webhook_url, wake, init_loop>>

\* _refill_cache from the end of generate_message on, and the return of
\* _send_reminder.
AppRefilled ==
    /\ app_pc = "refill_generate"
    /\ gen_pc \in {"returned", "raised"}
    /\ LET r == generate_and_cache_message(cache_file, gen_pc, gen_result, stamp + 1,
                                           OkWrites)
       IN  /\ Cached(r)
           /\ SendReturns([cycle EXCEPT !.enqueues = IF Truthy(r.ret) THEN @ + 1 ELSE @],
                          TRUE, cycle.post)
    /\ GenForget
    /\ UNCHANGED <<svars, cache_size, main_webhook_url, wake, init_loop>>

\* The loop's `self.scheduler.schedule_next_reminder()` after a send.
AppScheduleNext(t1, t2) ==
    /\ app_pc = "schedule_next"
    /\ t1 \in Elapse(now)
    /\ ScheduleNextReminder(t1, t2)
    /\ app_pc' = "wait"
    /\ UNCHANGED <<qvars, gvars, is_sending, cache_size, main_webhook_url, wake, cycle, init_loop>>

\* Mutant: the loop sleeps twice the interval it was advised.
time_sleep_twice(t, interval) == t + 2 * interval

\* time.sleep(interval) begun at t: the instant it ends.
time_sleep(t, interval) == t + interval

\* The loop's get_next_check_interval and time.sleep(interval).
AppWait(t) ==
    /\ app_pc = "wait"
    /\ t \in Elapse(now)
    /\ GetNextCheckInterval(t)
    /\ wake' = time_sleep(t, s_op'.ret.n)
    /\ app_pc' = "check"
    /\ UNCHANGED <<qvars, gvars, is_sending, cache_size, main_webhook_url, cycle, init_loop>>

\* ------------------------------ the polling loop, to the second

\* The loop of ReminderApp.run with a clock that is read to the second, when
\* nothing but time.sleep takes time: a check is made at the instant the
\* sleep ends, _send_reminder and the scheduler's calls take no time.

\* The seconds of date 0 at which run() reaches its first
\* schedule_next_reminder.
PollStarts == {0, 46799, 46800, 49799, 49800, 50395, 50399, 50400, 50401, 86395}

PollScheduleFirst(t) ==
    /\ app_pc = "schedule_first"
    /\ ScheduleNextReminder(t, t)
    /\ app_pc' = "wait"
    /\ UNCHANGED <<qvars, gvars, is_sending, cache_size, main_webhook_url, wake, cycle, init_loop>>

\* `if self.scheduler.should_send_reminder()` at the end of the sleep; the
\* send that follows a True is left out.
PollCheck ==
    /\ app_pc = "check"
    /\ ShouldSendReminder(wake, wake)
    /\ app_pc' = IF s_op'.ret = PyBool(TRUE) THEN "schedule_next" ELSE "wait"
    /\ UNCHANGED <<qvars, gvars, is_sending, cache_size, main_webhook_url, wake, cycle, init_loop>>

PollScheduleNext ==
    /\ app_pc = "schedule_next"
    /\ DateOf(now) < MaxPollDay
    /\ ScheduleNextReminder(now, now)
    /\ app_pc' = "wait"
    /\ UNCHANGED <<qvars, gvars, is_sending, cache_size, main_webhook_url, wake, cycle, init_loop>>

PollWait ==
    /\ app_pc = "wait"
    /\ GetNextCheckInterval(now)
    /\ wake' = time_sleep(now, s_op'.ret.n)
    /\ app_pc' = "check"
    /\ UNCHANGED <<qvars, gvars, is_sending, cache_size, main_webhook_url, cycle, init_loop>>

PNext ==
    \/ (\E t \in PollStarts : PollScheduleFirst(t)) /\ UNCHANGED <<hvars, cvars>>
    \/ PollCheck /\ UNCHANGED <<hvars, cvars>>
    \/ PollScheduleNext /\ UNCHANGED <<hvars, cvars>>
    \/ PollWait /\ UNCHANGED <<hvars, cvars>>

\* ------------------------------------- the polling loop, day after day

\* The loop of ReminderApp.run with no last day. The scheduler compares
\* datetimes and takes the date of a clock reading, nothing else, so it
\* computes the same whatever date is counted as date 0: datetimes are
\* counted from midnight of the date on which the loop's last sleep ended.
\* The clock is read to the second and nothing but time.sleep takes time.
\* _send_reminder is one step, the cache and the service being left out: it
\* finds a message or none, the transport answers, and the refill adds a
\* message, fails to, or is not needed.

LiveStarts == {0, 50395, 50400, 86395}

\* What a _send_reminder call meets: whether the cache gave a message, the
\* transport's answer, and the generate_message and add_message calls.
SendOutcomes ==
    {[message |-> FALSE, post |-> "none", generates |-> 0, enqueues |-> 0]}
        \cup {[message |-> TRUE, post |-> "ok", generates |-> c[1], enqueues |-> c[2]] :
                c \in {<<0, 0>>, <<1, 0>>, <<1, 1>>}}
        \cup {[message |-> TRUE, post |-> "RequestException", generates |-> 0, enqueues |-> 1],
              [message |-> TRUE, post |-> "Exception", generates |-> 0, enqueues |-> 0]}

\* Moves the origin of the datetimes of a scheduler record by `shift` seconds.
Rebased(next, shift) == IF next.set THEN At(next.at - shift) ELSE next

LiveScheduleFirst(t) ==
    /\ app_pc = "schedule_first"
    /\ ScheduleNextReminder(t, t)
    /\ app_pc' = "check"
    /\ UNCHANGED <<qvars, gvars, is_sending, cache_size, main_webhook_url, wake, cycle, init_loop>>

\* `if self.scheduler.should_send_reminder()`, read when the sleep ends.
LiveCheck ==
    /\ app_pc = "check"
    /\ ShouldSendReminder(IF wake > now THEN wake ELSE now, IF wake > now THEN wake ELSE now)
    /\ app_pc' = IF s_op'.ret = PyBool(TRUE) THEN "send" ELSE "wait"
    /\ UNCHANGED <<qvars, gvars, is_sending, cache_size, main_webhook_url, wake, cycle, init_loop>>

\* _send_reminder, whole: every path of it returns.
LiveSendReminder(outcome) ==
    /\ app_pc = "send"
    /\ ~is_sending
    /\ LET started == [NoCycle EXCEPT !.message = IF outcome.message
                                                  THEN PyStr(<<"a">>) ELSE PyNone,
                                      !.generates = outcome.generates,
                                      !.enqueues = outcome.enqueues]
       IN  IF ~outcome.message
           THEN /\ is_sending' = FALSE
                /\ cycle' = [started EXCEPT !.success = PyBool(FALSE), !.done = TRUE]
                /\ app_pc' = "schedule_next"
           ELSE IF send_message_raises(main_webhook_url, outcome.post)
           THEN SendReturns(started, FALSE, outcome.post)
           ELSE SendReturns(started, send_reminder(main_webhook_url, outcome.post),
                            outcome.post)
    /\ UNCHANGED <<qvars, gvars, svars, cache_size, main_webhook_url, wake, init_loop>>

LiveScheduleNext ==
    /\ app_pc = "schedule_next"
    /\ ScheduleNextReminder(now, now)
    /\ app_pc' = "wait"
    /\ UNCHANGED <<qvars, gvars, is_sending, cache_size, main_webhook_url, wake, cycle, init_loop>>

\* The loop's get_next_check_interval and time.sleep(interval); the origin of
\* the datetimes moves to the date on which the sleep ends.
LiveWait ==
    /\ app_pc = "wait"
    /\ LET interval == get_next_check_interval(next_reminder_time, now)
           woken == time_sleep(now, interval)
           shift == DateOf(woken) * SecondsPerDay
       IN  /\ wake' = woken - shift
           /\ now' = now - shift
           /\ next_reminder_time' = Rebased(next_reminder_time, shift)
           /\ s_op' = [name |-> "get_next_check_interval", ret |-> PyInt(interval),
                       pre |-> next_reminder_time', t1 |-> now', t2 |-> now', r1 |-> 0]
    /\ app_pc' = "check"
    /\ UNCHANGED <<range_start, range_end, randomize, time_range_end, due_streak>>
    /\ UNCHANGED <<qvars, gvars, is_sending, cache_size, main_webhook_url, cycle, init_loop>>

LNext ==
    \/ (\E t \in LiveStarts : LiveScheduleFirst(t)) /\ UNCHANGED <<hvars, cvars>>
    \/ LiveCheck /\ UNCHANGED <<hvars, cvars>>
    \/ (\E outcome \in SendOutcomes : LiveSendReminder(outcome)) /\ UNCHANGED <<hvars, cvars>>
    \/ LiveScheduleNext /\ UNCHANGED <<hvars, cvars>>
    \/ LiveWait /\ UNCHANGED <<hvars, cvars>>

QNext ==
    \/ (\E message \in AddInputs : AddMessage(message, OkWrites))
            /\ UNCHANGED <<hvars, gvars, cvars, svars, avars>>
    \/ GetOldestMessage(OkWrites) /\ UNCHANGED <<hvars, gvars, cvars, svars, avars>>
    \/ ValidateAndRepair(OkWrites) /\ UNCHANGED <<hvars, gvars, cvars, svars, avars>>
    \/ GetCacheCount("ok") /\ UNCHANGED <<hvars, gvars, cvars, svars, avars>>
    \/ (\E size \in 0..MaxCacheSize : NeedsRefill(size, "ok"))
            /\ UNCHANGED <<hvars, gvars, cvars, svars, avars>>
    \/ (\E size \in 0..MaxCacheSize : IsCacheFull(size, "ok"))
            /\ UNCHANGED <<hvars, gvars, cvars, svars, avars>>

GNext ==
    \/ (\E max_retries \in 0..MaxRetriesArg : GenStart(max_retries))
            /\ UNCHANGED <<qvars, hvars, cvars, svars, avars>>
    \/ (\E outcome \in ServiceOutcomes : GenAttempt(outcome)) /\ UNCHANGED <<qvars, hvars, cvars, svars, avars>>
    \/ GenLoopEnd /\ UNCHANGED <<qvars, hvars, cvars, svars, avars>>

SNext ==
    \/ (\E r \in InstantPairs : ScheduleNextReminder(r[1], r[2]))
            /\ UNCHANGED <<qvars, hvars, gvars, cvars, avars>>
    \/ (\E r \in InstantPairs : ShouldSendReminder(r[1], r[2]))
            /\ UNCHANGED <<qvars, hvars, gvars, cvars, avars>>
    \/ (\E t \in Instants : GetNextCheckInterval(t)) /\ UNCHANGED <<qvars, hvars, gvars, cvars, avars>>

ANext ==
    \/ AppInitializeCache /\ UNCHANGED <<hvars, cvars>>
    \/ (\E outcome \in AppServiceOutcomes : AppGenAttempt(outcome)) /\ UNCHANGED <<hvars, cvars>>
    \/ AppInitGenerated /\ UNCHANGED <<hvars, cvars>>
    \/ (\E r \in Readings : AppScheduleFirst(r[1], r[2])) /\ UNCHANGED <<hvars, cvars>>
    \/ (\E t \in AppInstants : AppCheck(t)) /\ UNCHANGED <<hvars, cvars>>
    \/ AppSendReminder /\ UNCHANGED <<hvars, cvars>>
    \/ (\E post \in PostOutcomes : AppTransport(post)) /\ UNCHANGED <<hvars, cvars>>
    \/ AppRefilled /\ UNCHANGED <<hvars, cvars>>
    \/ (\E r \in Readings : AppScheduleNext(r[1], r[2])) /\ UNCHANGED <<hvars, cvars>>
    \/ (\E t \in AppInstants : AppWait(t)) /\ UNCHANGED <<hvars, cvars>>

HNext ==
    \/ (\E message \in SentInputs(Len(sent_log) + 1) : MarkAsSent(message, "ok"))
            /\ UNCHANGED <<gvars, cvars, svars, avars>>
    \/ (\E count \in RecentCounts : GetRecentSentMessages(count, "ok"))
            /\ UNCHANGED <<gvars, cvars, svars, avars>>

FNext ==
    \/ (\E message \in AddInputs, ws \in StorageAnswers \X StorageAnswers :
            stamp < MaxFaultStamp /\ AddMessage(message, ws))
            /\ UNCHANGED <<hvars, gvars, cvars, svars, avars>>
    \/ (\E ws \in StorageAnswers \X StorageAnswers : GetOldestMessage(ws))
            /\ UNCHANGED <<hvars, gvars, cvars, svars, avars>>
    \/ (\E ws \in StorageAnswers \X StorageAnswers : ValidateAndRepair(ws))
            /\ UNCHANGED <<hvars, gvars, cvars, svars, avars>>
    \/ (\E message \in SentInputs(Len(sent_log) + 1), w \in StorageAnswers :
            Len(sent_log) < MaxFaultSent /\ MarkAsSent(message, w))
            /\ UNCHANGED <<gvars, cvars, svars, avars>>

CNext ==
    \/ (\E raw_message \in CleanInputs : CleanMessage(raw_message))
            /\ UNCHANGED <<qvars, hvars, gvars, svars, avars>>
    \/ CleanAgain /\ UNCHANGED <<qvars, hvars, gvars, svars, avars>>

vars == <<qvars, hvars, gvars, cvars, svars, avars>>

QueueInit == HIdle /\ QInit /\ GInit /\ SIdle /\ AIdle

\* The cache on its own: any sequence of its operations on any stored file.
QueueSpec == QueueInit /\ [][QNext]_vars

GenInit == GInit /\ cache_file = FileList(<<>>) /\ HIdle /\ QInit /\ SIdle /\ AIdle

\* The LLM client on its own: any sequence of generate_message calls, the
\* service answering each call in any way.
GenSpec == GenInit /\ [][GNext]_vars

SchedInit == SInit /\ GInit /\ cache_file = FileList(<<>>) /\ HIdle /\ QInit /\ AIdle

CleanInit == GenInit

\* _clean_message on its own: a call on any of the texts above, and a call on
\* what that call returned.
CleanSpec == CleanInit /\ [][CNext]_vars

\* The scheduler on its own: any sequence of its operations, under each
\* configuration, the clock read at any instant (it may be set back between
\* two operations; the two readings of one operation are the same instant or
\* two neighbouring ones).
SchedSpec == SchedInit /\ [][SNext]_vars

\* The messages.json the sent history is exercised on.
SentStoredEntries == {JDict(PyStr(<<"b">>), 0), JDict(PyStr(<<" ", "a">>), 0), JDict(PyInt(7), 0)}
SentInitFiles ==
    {FileUnreadable}
        \cup {FileList(Stamped(es)) :
                es \in UNION {[1..k -> SentStoredEntries] : k \in 0..MaxSentInit}}

SentInit ==
    /\ sent_file \in {FileList(<<>>), FileUnreadable}
    /\ sent_log = <<>>
    /\ QInit /\ cache_file \in SentInitFiles
    /\ GInit /\ SIdle /\ AIdle

\* The sent history on its own: any sequence of mark_as_sent and
\* get_recent_sent_messages calls, the storage taking every write.
SentSpec == SentInit /\ [][HNext]_vars

\* The files the application starts on.
AppStoredEntries == {JDict(PyStr(<<"a">>), 0), JDict(PyInt(7), 0)}
AppInitFiles ==
    {FileUnreadable}
        \cup {FileList(Stamped(es)) :
                es \in UNION {[1..k -> AppStoredEntries] : k \in 0..MaxAppInit}}

PollInit ==
    /\ SInit /\ GInit /\ HIdle /\ cache_file = FileList(<<>>) /\ QInit
    /\ app_pc = "schedule_first"
    /\ is_sending = FALSE
    /\ cache_size = 1
    /\ main_webhook_url = ""
    /\ wake = 0
    /\ cycle = NoCycle
    /\ init_loop = NoLoop

\* The polling loop on its own, under each configuration of the scheduler.
PollSpec == PollInit /\ [][PNext]_vars

LiveInit ==
    /\ SInit /\ GInit /\ HIdle /\ cache_file = FileList(<<>>) /\ QInit
    /\ app_pc = "schedule_first"
    /\ is_sending = FALSE
    /\ cache_size = 1
    /\ main_webhook_url = "https://discord.example/api/webhooks/1"
    /\ wake = 0
    /\ cycle = NoCycle
    /\ init_loop = NoLoop

\* The polling loop with no last day, when the clock advances and every
\* call returns: a step of the loop that can be taken is taken.
LiveSpec == LiveInit /\ [][LNext]_vars /\ WF_vars(LNext)

FaultInit == HIdle /\ QInit /\ cache_file \in AppInitFiles /\ GInit /\ SIdle /\ AIdle

\* The cache and the sent history on a storage that may fail any write.
FaultSpec == FaultInit /\ [][FNext]_vars

AppInit == AInit /\ HIdle /\ QInit /\ cache_file \in AppInitFiles /\ GInit /\ SInit

\* ReminderApp.run on any stored file, under each configuration: the storage
\* takes every write, the service and the transport answer in any way, and
\* the clock never goes back.
AppSpec == AppInit /\ [][ANext]_vars

\* ------------------------------------------------------------ the claims

\* The data model's QueueEntry: a record whose text is a string that is not
\* empty after trimming.
IsQueueEntry(e) ==
    e.t = "dict" /\ e.has_message /\ e.message.t = "str" /\ Strip(e.message.s) # <<>>

Timestamps(entries) == {entries[i].timestamp : i \in 1..Len(entries)}

EnqueuedIds == {enq_log[k].id : k \in 1..Len(enq_log)}

\* C1: FIFO order. Every text get_oldest_message returns is the text of exactly
\* one stored entry; an entry that add_message stored comes back with the
\* (stripped) text it was stored with; the entries come back in the order they
\* were stored; and no entry older than a returned one is still pending.
C1_FifoOrder ==
    /\ \A i \in 1..Len(deq_log) : Cardinality(deq_log[i].ids) = 1
    /\ \A i \in 1..Len(deq_log) : \A k \in 1..Len(enq_log) :
            enq_log[k].id \in deq_log[i].ids => deq_log[i].text = enq_log[k].text
    /\ \A i, j \in 1..Len(deq_log) :
            i < j => \A a \in deq_log[i].ids, b \in deq_log[j].ids : a < b
    /\ \A i \in 1..Len(deq_log) : \A a \in deq_log[i].ids :
            \A k \in 1..Len(cache_file.entries) :
                IsQueueEntry(cache_file.entries[k]) => a < cache_file.entries[k].timestamp

\* C1 witness: three texts were stored by add_message and came back, first to last.
C1_Witness ==
    /\ Len(enq_log) >= 3
    /\ Len(deq_log) >= 3
    /\ \E d \in 0..(Len(deq_log) - 3) :
          /\ \A i \in 1..3 : deq_log[d + i].ids = {enq_log[i].id}
          /\ deq_log[d + 1].text # deq_log[d + 2].text
          /\ deq_log[d + 2].text # deq_log[d + 3].text
          /\ deq_log[d + 1].text # deq_log[d + 3].text

\* The places of the queue entries in a list of stored elements.
QueueEntryPlaces(entries) == {i \in 1..Len(entries) : IsQueueEntry(entries[i])}

Least(S) == CHOOSE i \in S : \A j \in S : i <= j

\* C2: get_oldest_message never returns an invalid message. Whatever the file
\* held before the call, the call returns the stripped, non-empty text of the
\* first queue entry and no element up to and including that entry is left in
\* the file; it returns None only when the file held no queue entry, and then
\* none is pending afterwards.
C2_NeverInvalid ==
    q_op.name = "get_oldest_message" =>
        LET pre == q_op.pre.entries
            places == QueueEntryPlaces(pre)
        IN  IF places = {}
            THEN /\ q_op.ret = PyNone
                 /\ QueueEntryPlaces(cache_file.entries) = {}
            ELSE LET first == Least(places)
                 IN  /\ q_op.ret.t = "str"
                     /\ q_op.ret.s # <<>>
                     /\ Strip(q_op.ret.s) = q_op.ret.s
                     /\ q_op.ret.s = Strip(pre[first].message.s)
                     /\ \A k \in 1..first :
                            pre[k].timestamp \notin Timestamps(cache_file.entries)

\* C2 witness: a corrupted element lay ahead of a queue entry whose stored text
\* had surrounding blanks, and the call returned that entry's stripped text.
C2_Witness ==
    /\ q_op.name = "get_oldest_message"
    /\ Len(q_op.pre.entries) >= 2
    /\ ~IsQueueEntry(q_op.pre.entries[1])
    /\ IsQueueEntry(q_op.pre.entries[2])
    /\ q_op.pre.entries[2].message.s # Strip(q_op.pre.entries[2].message.s)
    /\ q_op.ret = PyStr(Strip(q_op.pre.entries[2].message.s))

\* C3: no two entries of the pending queue have the same trimmed text.
C3_NoDuplicates == NoDuplicateTexts(cache_file.entries)

\* The last _send_reminder call has returned and the transport had reported
\* that it did not take the message it was given (send_reminder gave False).
TransportFailed ==
    /\ cycle.done
    /\ cycle.message.t = "str"
    /\ cycle.success = PyBool(FALSE)
    /\ cycle.post # "Exception"

\* C4: a transport failure does not lose the message. When _send_reminder has
\* returned after the transport reported failure, the text it had taken is
\* the newest entry of the cache, the cache holds as many messages as before
\* the call, and run is back in its loop, about to schedule the next reminder
\* or past that.
C4_TransportFailureRequeues ==
    TransportFailed =>
        LET pending == PendingTexts(cache_file.entries)
        IN  /\ cache_file.t = "list"
            /\ pending # <<>>
            /\ pending[Len(pending)] = cycle.message.s
            /\ Len(pending) = cycle.before
            /\ ~is_sending
            /\ app_pc \in {"schedule_next", "wait", "check", "send"}

\* C4 witness: a configured webhook raised RequestException for the older of
\* two cached messages, and the loop has gone on to schedule the next reminder.
C4_Witness ==
    /\ TransportFailed
    /\ cycle.post = "RequestException"
    /\ main_webhook_url \notin PlaceholderUrls
    /\ cycle.before = 2
    /\ app_pc = "wait"
    /\ PendingTexts(cache_file.entries)[1] # cycle.message.s

\* The service calls of the current generate_message call, and its sleeps.
GenCalls == SelectSeq(gen_trace, LAMBDA e : e.ev = "call")
GenSleeps == SelectSeq(gen_trace, LAMBDA e : e.ev = "sleep")

\* A failure whose message carries a transient indicator (rate limit, capacity,
\* 429, 503, ...), letter case ignored.
TransientFailure(o) ==
    /\ o.t = "exception"
    /\ \E k \in 1..Len(CapacityIndicators) : Contains(Lower(o.text), CapacityIndicators[k])

PermanentFailure(o) == o.t = "exception" /\ ~TransientFailure(o)

\* A response whose text sanitization accepts, and one it does not (or whose
\* text is empty).
UsableResponse(o) ==
    o.t = "response" /\ Strip(o.text) # <<>> /\ clean_message(Strip(o.text)) # PyNone
RejectedResponse(o) == o.t = "response" /\ ~UsableResponse(o)

LastEventIsCall == gen_trace # <<>> /\ gen_trace[Len(gen_trace)].ev = "call"

\* C5: retry with backoff. After k transient failures with k < max_retries the
\* call goes on to attempt k+1; when the first k calls failed with a transient
\* error and call k+1 gave a usable response, generate_message has returned
\* the sanitized text after exactly k+1 calls, and the calls alternate with
\* sleeps of 2, 4, ..., 2^k seconds in that order.
C5_RetryWithBackoff ==
    /\ \A k \in 0..Len(GenCalls) :
          (/\ k = Len(GenCalls)
           /\ k < gen_max_retries
           /\ \A i \in 1..k : TransientFailure(GenCalls[i].outcome))
          => gen_pc = "running" /\ gen_attempt = k
    /\ \A k \in 0..(Len(GenCalls) - 1) :
          (/\ \A i \in 1..k : TransientFailure(GenCalls[i].outcome)
           /\ UsableResponse(GenCalls[k + 1].outcome))
          => /\ k < gen_max_retries
             /\ gen_pc = "returned"
             /\ Len(GenCalls) = k + 1
             /\ gen_result = clean_message(Strip(GenCalls[k + 1].outcome.text))
             /\ Len(gen_trace) = 2 * k + 1
             /\ \A i \in 1..k :
                    /\ gen_trace[2 * i - 1] = GenCalls[i]
                    /\ gen_trace[2 * i] = SleepEvent(2 ^ i)
             /\ gen_trace[2 * k + 1] = GenCalls[k + 1]

\* C5 witness: two transient failures, then a response that sanitization
\* changes; three calls, sleeps of 2 and 4 seconds.
C5_Witness ==
    /\ gen_pc = "returned"
    /\ Len(GenCalls) = 3
    /\ TransientFailure(GenCalls[1].outcome)
    /\ TransientFailure(GenCalls[2].outcome)
    /\ UsableResponse(GenCalls[3].outcome)
    /\ gen_result.t = "str"
    /\ gen_result.s # GenCalls[3].outcome.text
    /\ GenSleeps = <<SleepEvent(2), SleepEvent(4)>>

\* C6: a failure that carries no transient indicator is raised at once: it is
\* the last call, the call has ended by raising that failure, and no sleep
\* follows it (the sleeps are those after the calls before it).
C6_PermanentFailureRaised ==
    \A i \in 1..Len(GenCalls) :
        PermanentFailure(GenCalls[i].outcome)
        => /\ i = Len(GenCalls)
           /\ gen_pc = "raised"
           /\ gen_result = PyStr(GenCalls[i].outcome.text)
           /\ LastEventIsCall
           /\ Len(GenSleeps) = i - 1

\* C6 witness: the failure came at the second attempt, with attempts left.
C6_Witness ==
    /\ gen_pc = "raised"
    /\ Len(GenCalls) = 2
    /\ gen_max_retries > 2
    /\ TransientFailure(GenCalls[1].outcome)
    /\ PermanentFailure(GenCalls[2].outcome)

\* C7: retry exhaustion. With max_retries >= 1 and every call so far failing
\* with a transient error: while fewer than max_retries calls were made the
\* call is still running, each failure followed by its sleep; once
\* max_retries calls were made it has raised the last failure, after
\* max_retries - 1 sleeps and none after the last call.
C7_RetryExhaustion ==
    (/\ gen_pc # "idle"
     /\ gen_max_retries >= 1
     /\ \A i \in 1..Len(GenCalls) : TransientFailure(GenCalls[i].outcome))
    => /\ Len(GenCalls) <= gen_max_retries
       /\ IF Len(GenCalls) < gen_max_retries
          THEN gen_pc = "running" /\ Len(GenSleeps) = Len(GenCalls)
          ELSE /\ gen_pc = "raised"
               /\ Len(GenSleeps) = gen_max_retries - 1
               /\ LastEventIsCall
               /\ gen_result = PyStr(GenCalls[Len(GenCalls)].outcome.text)

\* C7 witness: three attempts allowed, three transient failures, raised.
C7_Witness ==
    /\ gen_pc = "raised"
    /\ gen_max_retries = DefaultMaxRetries
    /\ Len(GenCalls) = DefaultMaxRetries
    /\ \A i \in 1..Len(GenCalls) : TransientFailure(GenCalls[i].outcome)
    /\ GenSleeps = <<SleepEvent(2), SleepEvent(4)>>

\* C8: a response that sanitization rejects (or whose text is empty) ends the
\* call: it is the last call, nothing is raised, None is returned.
C8_RejectedOutputNotRetried ==
    \A i \in 1..Len(GenCalls) :
        RejectedResponse(GenCalls[i].outcome)
        => /\ i = Len(GenCalls)
           /\ gen_pc = "returned"
           /\ gen_result = PyNone
           /\ LastEventIsCall

\* C8 witness: the first of three attempts gave a text that is not empty and
\* that sanitization rejects.
C8_Witness ==
    /\ gen_pc = "returned"
    /\ gen_max_retries = DefaultMaxRetries
    /\ Len(GenCalls) = 1
    /\ Strip(GenCalls[1].outcome.text) # <<>>
    /\ RejectedResponse(GenCalls[1].outcome)
    /\ gen_result = PyNone

\* C9: with a reminder scheduled, should_send_reminder answers True exactly
\* when the clock reading is at or past next_reminder_time and leaves
\* next_reminder_time as it was; only the operations that schedule change it,
\* and once set it is never None again.
C9_IsDueIffTimeReached ==
    /\ (s_op.name = "should_send_reminder" /\ s_op.pre.set)
          => /\ s_op.ret = PyBool(now >= s_op.pre.at)
             /\ next_reminder_time = s_op.pre
    /\ s_op.name = "get_next_check_interval" => next_reminder_time = s_op.pre
    /\ s_op.pre.set => next_reminder_time.set
    /\ s_op.name \in {"schedule_next_reminder", "should_send_reminder"}
          => next_reminder_time.set

\* C9 witness: the check was made at the very second of the reminder and
\* answered True.
C9_Witness ==
    /\ s_op.name = "should_send_reminder"
    /\ s_op.pre.set
    /\ now = s_op.pre.at
    /\ s_op.ret = PyBool(TRUE)

\* C10: the first check never fires. With no reminder scheduled,
\* should_send_reminder schedules one and answers False.
C10_FirstCheckNeverFires ==
    (s_op.name = "should_send_reminder" /\ ~s_op.pre.set)
        => s_op.ret = PyBool(FALSE) /\ next_reminder_time.set

\* C10 witness: the check answered False although the clock reading it took
\* is past the time it scheduled.
C10_Witness ==
    /\ s_op.name = "should_send_reminder"
    /\ ~s_op.pre.set
    /\ s_op.ret = PyBool(FALSE)
    /\ next_reminder_time.set
    /\ now >= next_reminder_time.at

\* C11: run honours the scheduler's caller contract. Step by step: a check is
\* made only at the top of the loop, which is entered only from the first
\* schedule_next_reminder or from the sleep; a check that answers True is
\* followed by one _send_reminder call (one get_oldest_message, the scheduler
\* untouched until it returns); when that call has returned, with True or
\* False, with no message found or after an exception, the next step is
\* schedule_next_reminder, and only then the sleep and the next check.
C11_CallerContract ==
    [][/\ app_pc = "check" =>
             /\ s_op'.name = "should_send_reminder"
             /\ app_pc' = IF s_op'.ret = PyBool(TRUE) THEN "send" ELSE "wait"
       /\ app_pc' = "send" => app_pc = "check"
       /\ app_pc = "send" =>
             /\ q_op'.name = "get_oldest_message"
             /\ ~cycle'.done => cycle'.message = q_op'.ret
             /\ app_pc' = IF Truthy(q_op'.ret) THEN "transport" ELSE "schedule_next"
             /\ UNCHANGED svars
       /\ app_pc \in {"transport", "refill_generate"} =>
             /\ app_pc' \in {"refill_generate", "schedule_next"}
             /\ cycle'.message = cycle.message
             /\ UNCHANGED <<deq_log, svars>>
       /\ app_pc' = "schedule_next" => cycle'.done /\ ~is_sending'
       /\ app_pc = "schedule_next" =>
             /\ s_op'.name = "schedule_next_reminder"
             /\ next_reminder_time'.set
             /\ app_pc' = "wait"
       /\ app_pc' = "wait" => app_pc \in {"check", "schedule_next"}
       /\ app_pc' = "check" => app_pc \in {"schedule_first", "wait"}
      ]_vars

\* C11 witness: the transport raised an exception that send_message does not
\* catch, _send_reminder returned False without putting the message back,
\* and schedule_next_reminder was called before the loop went to sleep.
C11_Witness ==
    /\ cycle.done
    /\ cycle.post = "Exception"
    /\ cycle.success = PyBool(FALSE)
    /\ app_pc = "wait"
    /\ s_op.name = "schedule_next_reminder"
    /\ s_op.pre.set
    /\ s_op.pre.at <= s_op.t2

\* C12: the schedule stays stuck without a recompute. When should_send_reminder
\* has answered True, and since then schedule_next_reminder was not called and
\* no clock reading was earlier than the one before it, a further call of
\* should_send_reminder at a reading that is not earlier answers True again
\* and leaves next_reminder_time as it was.
C12_StuckWithoutRecompute ==
    [][(/\ due_streak > 0
        /\ s_op'.name = "should_send_reminder"
        /\ now' >= now)
       => /\ s_op'.ret = PyBool(TRUE)
          /\ next_reminder_time' = next_reminder_time
          /\ due_streak' > 0
      ]_svars

\* C12 witness: should_send_reminder answered True a second time with no
\* schedule_next_reminder call in between, later than the reminder's time.
C12_Witness ==
    /\ due_streak = 2
    /\ s_op.name = "should_send_reminder"
    /\ s_op.ret = PyBool(TRUE)
    /\ now > next_reminder_time.at

\* Today's candidate of the last schedule_next_reminder call: the date of
\* its first clock reading at the minute drawn, or at the start time.
TodaysCandidate ==
    DateOf(s_op.t1) * SecondsPerDay
        + 60 * (IF randomize THEN s_op.r1 ELSE MinutesOf(range_start))

\* The minutes of the day the policy allows: the window, or the start time.
PolicyMinutes ==
    IF randomize THEN MinutesOf(range_start)..MinutesOf(range_end)
    ELSE {MinutesOf(range_start)}

\* C13: rollover. schedule_next_reminder returns today's candidate exactly when
\* the clock reading it compares is strictly before the candidate; otherwise
\* it returns a time on the day after, at a minute the same policy allows.
C13_Rollover ==
    s_op.name = "schedule_next_reminder" =>
        /\ next_reminder_time.set
        /\ s_op.ret = PyInt(next_reminder_time.at)
        /\ (s_op.t2 < TodaysCandidate) <=> (next_reminder_time.at = TodaysCandidate)
        /\ s_op.t2 >= TodaysCandidate =>
              \E m \in PolicyMinutes :
                  next_reminder_time.at = (DateOf(s_op.t1) + 1) * SecondsPerDay + 60 * m

\* C13 witness: in random mode the clock stood exactly at today's candidate
\* and the reminder went to the day after.
C13_Witness ==
    /\ s_op.name = "schedule_next_reminder"
    /\ randomize
    /\ s_op.t2 = TodaysCandidate
    /\ DateOf(next_reminder_time.at) = DateOf(s_op.t1) + 1

\* The second of the day of a datetime.
SecondOfDay(t) == t % SecondsPerDay

\* C14: the window. In random mode every reminder time that was scheduled, for
\* today or for tomorrow, is at a whole minute of its day, not before the
\* window's start and not after its end.
C14_InsideWindow ==
    (randomize /\ next_reminder_time.set) =>
        /\ SecondOfDay(next_reminder_time.at) % 60 = 0
        /\ SecondOfDay(next_reminder_time.at) >= 60 * MinutesOf(range_start)
        /\ SecondOfDay(next_reminder_time.at) <= 60 * MinutesOf(range_end)

\* C14 witness: both bounds are attained. A reminder scheduled at the first
\* minute of the window was followed by one scheduled at its last minute.
C14_Witness ==
    /\ randomize
    /\ MinutesOf(range_start) < MinutesOf(range_end)
    /\ s_op.name = "schedule_next_reminder"
    /\ s_op.pre.set
    /\ SecondOfDay(s_op.pre.at) = 60 * MinutesOf(range_start)
    /\ SecondOfDay(next_reminder_time.at) = 60 * MinutesOf(range_end)

\* C15: fixed mode. With randomize false every reminder time that was scheduled
\* is at the start time of its day, to the second, whatever end time the
\* scheduler was constructed with.
C15_FixedMode ==
    (~randomize /\ next_reminder_time.set) =>
        /\ SecondOfDay(next_reminder_time.at) = 60 * MinutesOf(range_start)
        /\ range_end = range_start

\* C15 witness: constructed with an end time other than the start time, the
\* scheduler has put a reminder at the start time of the day after the call.
C15_Witness ==
    /\ ~randomize
    /\ time_range_end # range_start
    /\ s_op.name = "schedule_next_reminder"
    /\ SecondOfDay(next_reminder_time.at) = 60 * MinutesOf(range_start)
    /\ DateOf(next_reminder_time.at) = DateOf(s_op.t1) + 1

\* What add_message was called with is not a text to store: not a string, the
\* empty string, or a string of blanks only.
InvalidText(v) == v.t # "str" \/ v.s = <<>> \/ Strip(v.s) = <<>>

\* C16: add_message rejects an invalid text and leaves the file alone. Called
\* with a value that is not a string, with the empty string or with blanks
\* only, it returns False and messages.json is exactly as before the call,
\* the invalid entries _read_cache would have dropped included.
C16_EnqueueRejectsInvalid ==
    (q_op.name = "add_message" /\ InvalidText(q_op.arg)) =>
        /\ q_op.ret = PyBool(FALSE)
        /\ cache_file = q_op.pre

\* C16 witness: a text of blanks was refused on a file that holds an entry
\* any read of the cache would have removed.
C16_Witness ==
    /\ q_op.name = "add_message"
    /\ q_op.arg = PyStr(<<" ">>)
    /\ q_op.ret = PyBool(FALSE)
    /\ cache_file.t = "list"
    /\ \E i \in 1..Len(cache_file.entries) : ~ValidEntry(cache_file.entries[i])
    /\ \E i \in 1..Len(cache_file.entries) : ValidEntry(cache_file.entries[i])

\* The pending queue a file holds: its queue entries, in the file's order.
PendingQueue(file) == SelectSeq(file.entries, IsQueueEntry)

\* C17: a successful add_message appends exactly one entry at the tail. When
\* it returns True the pending queue is the pending queue of before, entry by
\* entry, followed by one entry that holds the stripped argument and the
\* time of the call, so the count is one more than before.
C17_EnqueueAppendsOne ==
    (q_op.name = "add_message" /\ q_op.ret = PyBool(TRUE)) =>
        LET before == PendingQueue(q_op.pre)
            after == PendingQueue(cache_file)
        IN  /\ Len(after) = Len(before) + 1
            /\ SubSeq(after, 1, Len(before)) = before
            /\ after[Len(after)] = JDict(PyStr(Strip(q_op.arg.s)), stamp)
            /\ \A i \in 1..Len(before) : before[i].timestamp < stamp

\* C17 witness: a text with a leading blank was added behind a pending entry
\* on a file that also held an invalid entry.
C17_Witness ==
    /\ q_op.name = "add_message"
    /\ q_op.ret = PyBool(TRUE)
    /\ q_op.arg.s # Strip(q_op.arg.s)
    /\ Len(PendingQueue(q_op.pre)) = 1
    /\ Len(q_op.pre.entries) = 2
    /\ Len(PendingQueue(cache_file)) = 2

\* C18: the empty-queue contract. get_oldest_message called when no entry is
\* pending returns None (it returns, it does not raise), no entry is pending
\* afterwards and get_cache_count gives 0.
C18_EmptyQueue ==
    (q_op.name = "get_oldest_message" /\ PendingQueue(q_op.pre) = <<>>) =>
        /\ q_op.ret = PyNone
        /\ PendingQueue(cache_file) = <<>>
        /\ get_cache_count(cache_file, "ok").ret = 0
        /\ ~get_cache_count(cache_file, "ok").raised

\* C18 witness: the queue was emptied by get_oldest_message, and the call
\* after that found the empty list and returned None.
C18_Witness ==
    /\ q_op.name = "get_oldest_message"
    /\ q_op.pre = FileList(<<>>)
    /\ q_op.ret = PyNone
    /\ cache_file = FileList(<<>>)
    /\ Len(deq_log) >= 1

\* C19: validate_and_repair_cache is idempotent. A call that comes right after
\* another call of it leaves messages.json as the first call left it and
\* writes nothing.
C19_ValidateIdempotent ==
    [][(/\ q_op.name = "validate_and_repair_cache"
        /\ q_op'.name = "validate_and_repair_cache")
       => /\ cache_file' = cache_file
          /\ q_op'.writes = 0
      ]_qvars

\* C19 witness: of two calls in a row the first removed the second entry of a
\* text that had been added twice, the second wrote nothing and changed nothing.
C19_Witness ==
    /\ q_op.name = "validate_and_repair_cache"
    /\ q_op.prior = 1
    /\ q_op.writes = 0
    /\ cache_file = q_op.pre
    /\ cache_file.entries # <<>>
    /\ \E i, j \in 1..Len(enq_log) : i < j /\ enq_log[i].text = enq_log[j].text

\* The stripped text of a queue entry.
TextOf(e) == Strip(e.message.s)

\* The places of a pending queue whose text no earlier place holds.
FirstPlaces(queue) ==
    {i \in 1..Len(queue) : \A j \in 1..(i - 1) : TextOf(queue[j]) # TextOf(queue[i])}

\* C20: validate_and_repair_cache keeps the first entry of each text. After a
\* call the pending queue consists of the entries of the pending queue of
\* before that are the first of their stripped text, each once, in their
\* order; no two of them have the same stripped text; a list file holds
\* nothing else, and it holds what the repair tool makes of the list of
\* before; and the file was written only if it lost an element.
C20_DedupFirstWins ==
    q_op.name = "validate_and_repair_cache" =>
        LET before == PendingQueue(q_op.pre)
            after == PendingQueue(cache_file)
            keep == FirstPlaces(before)
        IN  /\ Len(after) = Cardinality(keep)
            /\ \A i \in keep : after[Cardinality({k \in keep : k <= i})] = before[i]
            /\ \A i, j \in 1..Len(after) : i # j => TextOf(after[i]) # TextOf(after[j])
            /\ cache_file.t = "list" => cache_file.entries = after
            /\ q_op.pre.t = "list" => cache_file.entries = repair_cache(q_op.pre.entries, {})
            /\ q_op.writes > 0 => Len(cache_file.entries) < Len(q_op.pre.entries)
            /\ q_op.writes = 0 => cache_file = q_op.pre

\* C20 witness: the third of three pending entries had the text of the first,
\* stored differently (with and without a leading blank); the first two were
\* kept.
C20_Witness ==
    /\ q_op.name = "validate_and_repair_cache"
    /\ Len(PendingQueue(q_op.pre)) = 3
    /\ TextOf(PendingQueue(q_op.pre)[1]) = TextOf(PendingQueue(q_op.pre)[3])
    /\ PendingQueue(q_op.pre)[1].message # PendingQueue(q_op.pre)[3].message
    /\ cache_file.entries = SubSeq(PendingQueue(q_op.pre), 1, 2)

\* C21: the self-healing read. After every call that read messages.json and
\* found a list there (add_message of a text it accepts, get_oldest_message,
\* validate_and_repair_cache, get_cache_count, needs_refill), the file holds
\* valid entries only; the entries it has kept from the list of before lie in
\* the order they had there; and _read_cache wrote the cleaned list back
\* within that call exactly when the list of before held an invalid entry.
C21_SelfHealingRead ==
    (q_op.reads > 0 /\ q_op.pre.t = "list") =>
        LET before == q_op.pre.entries
            after == cache_file.entries
            kept == {i \in 1..Len(after) : \E k \in 1..Len(before) : before[k] = after[i]}
            place(i) == CHOOSE k \in 1..Len(before) : before[k] = after[i]
        IN  /\ cache_file.t = "list"
            /\ \A i \in 1..Len(after) : IsQueueEntry(after[i])
            /\ \A i, j \in kept : i < j => place(i) < place(j)
            /\ \A k \in 1..Len(before) :
                   ~IsQueueEntry(before[k]) => \A i \in 1..Len(after) : after[i] # before[k]
            /\ (q_op.heals > 0) <=> (\E k \in 1..Len(before) : ~IsQueueEntry(before[k]))
            /\ q_op.heals <= 1

\* C21 witness: get_cache_count read a list of an invalid entry ahead of a
\* valid one; the valid one is what the file holds now, written by _read_cache.
C21_Witness ==
    /\ q_op.name = "get_cache_count"
    /\ Len(q_op.pre.entries) = 2
    /\ ~IsQueueEntry(q_op.pre.entries[1])
    /\ q_op.heals = 1
    /\ q_op.ret = PyInt(1)
    /\ cache_file = FileList(<<q_op.pre.entries[2]>>)

\* C22: storage write failures are surfaced. Whenever a _write_cache or
\* _write_sent call raised inside add_message, get_oldest_message,
\* mark_as_sent or validate_and_repair_cache, the caller is told: the call
\* raises, or it returns False. (None is what get_oldest_message returns for
\* an empty cache and what mark_as_sent always returns: it tells nothing.)
C22_WriteFailureSurfaced ==
    q_op.failed =>
        \/ q_op.raised
        \/ /\ q_op.name \in {"add_message", "validate_and_repair_cache"}
           /\ q_op.ret = PyBool(FALSE)

\* C23: read failures degrade to an empty queue. On a messages.json that is
\* missing, undecodable or not a list no call raises; get_cache_count gives
\* 0, get_oldest_message gives None and needs_refill gives cache_size, each
\* leaving the file as it is; and an add_message that returns True leaves a
\* file of exactly one entry, the text added.
C23_ReadFailureIsEmpty ==
    (q_op.pre.t # "list" /\ q_op.name # "init") =>
        /\ ~q_op.raised
        /\ ~q_op.failed
        /\ q_op.name = "get_cache_count" => (q_op.ret = PyInt(0) /\ cache_file = q_op.pre)
        /\ q_op.name = "get_oldest_message" => (q_op.ret = PyNone /\ cache_file = q_op.pre)
        /\ q_op.name = "needs_refill" => (q_op.ret = q_op.arg /\ cache_file = q_op.pre)
        /\ (q_op.name = "add_message" /\ q_op.ret = PyBool(TRUE)) =>
               /\ cache_file = FileList(<<JDict(PyStr(Strip(q_op.arg.s)), stamp)>>)
               /\ Len(PendingQueue(cache_file)) = 1
               /\ get_cache_count(cache_file, "ok").ret = 1

\* C23 witness: add_message(" a") returned True on a file that is not a list;
\* the file now holds the one entry "a".
C23_Witness ==
    /\ q_op.name = "add_message"
    /\ q_op.pre = FileNotList
    /\ q_op.arg = PyStr(<<" ", "a">>)
    /\ q_op.ret = PyBool(TRUE)
    /\ Len(cache_file.entries) = 1
    /\ cache_file.entries[1].message = PyStr(<<"a">>)

\* C24: the sent-history cap. From an empty history, after k mark_as_sent
\* calls sent_messages.json holds at most 20 entries, and their messages are
\* the last min(k, 20) messages mark_as_sent was called with, in the order of
\* the calls.
C24_SentHistoryCap ==
    LET k == Len(sent_log)
        kept == IF k < 20 THEN k ELSE 20
        history == read_sent(sent_file)
    IN  /\ Len(history) <= 20
        /\ Len(history) = kept
        /\ Messages(history) = SubSeq(sent_log, k - kept + 1, k)
        /\ \A i \in 1..kept : history[i].timestamp = k - kept + i

\* C24 witness: after 22 calls the file holds 20 entries, those of the third
\* call to the last.
C24_Witness ==
    /\ Len(sent_log) = 22
    /\ Len(sent_file.entries) = 20
    /\ sent_file.entries[1].message = sent_log[3]
    /\ sent_file.entries[20].message = sent_log[22]
    /\ sent_log[1] = PyStr(<<" ", "b">>)

\* C25: get_recent_sent_messages(count) returns the last count entries. For
\* every count >= 0 the list returned holds the messages of the last
\* min(count, |S|) entries of S in order, where S is the sent history when it
\* is not empty and the pending queue otherwise; for count = 0 it is empty.
C25_RecentLastN ==
    q_op.name = "get_recent_sent_messages" =>
        LET count == q_op.arg.n
            history == read_sent(q_op.sent)
            S == IF history # <<>> THEN history ELSE PendingQueue(q_op.pre)
            m == IF count < Len(S) THEN count ELSE Len(S)
        IN  /\ q_op.ret = PyList(Messages(SubSeq(S, Len(S) - m + 1, Len(S))))
            /\ Len(q_op.ret.s) <= count

\* C26: get_recent_sent_messages is non-destructive. A call, the fallback to
\* the cache included, leaves sent_messages.json as it was and the pending
\* queue (the valid entries of messages.json, in order) as it was, so that
\* get_oldest_message gives after the call what it would have given before.
\* What is not a valid entry may be gone from messages.json: _read_cache
\* writes the valid entries back.
C26_RecentNonDestructive ==
    q_op.name = "get_recent_sent_messages" =>
        /\ sent_file = q_op.sent
        /\ PendingQueue(cache_file) = PendingQueue(q_op.pre)
        /\ get_oldest_message(cache_file, OkWrites).ret
               = get_oldest_message(q_op.pre, OkWrites).ret
        /\ get_oldest_message(cache_file, OkWrites).file
               = get_oldest_message(q_op.pre, OkWrites).file
        /\ cache_file # q_op.pre => (q_op.heals = 1 /\ read_sent(q_op.sent) = <<>>)

\* C26 witness: the sent history was empty and the cache held an invalid entry
\* ahead of a valid one; the call gave the text of the valid one and the valid
\* one is still there to be taken.
C26_Witness ==
    /\ q_op.name = "get_recent_sent_messages"
    /\ read_sent(q_op.sent) = <<>>
    /\ q_op.arg = PyInt(1)
    /\ Len(q_op.pre.entries) = 2
    /\ ~IsQueueEntry(q_op.pre.entries[1])
    /\ q_op.ret = PyList(<<PyStr(<<" ", "a">>)>>)
    /\ cache_file = FileList(<<q_op.pre.entries[2]>>)
    /\ get_oldest_message(cache_file, OkWrites).ret = PyStr(<<"a">>)

\* C27: a successful send triggers a single refill. In a _send_reminder call
\* whose transport reported success there is at most one generate_message
\* call and at most one add_message call; the generate_message call is made
\* only when needs_refill gave more than 0, which is cache_size less the
\* entries left after the message was taken; add_message is called only with
\* what that call generated; and the entry delivered is not in the cache
\* again: the cache holds no entry of its timestamp, and at most one entry
\* newer than the start of the call.
C27_SingleRefill ==
    cycle.success = PyBool(TRUE) =>
        LET entries == cache_file.entries
            fresh == {i \in 1..Len(entries) : entries[i].timestamp > cycle.stamp0}
            taken == deq_log[Len(deq_log)].ids
            left == cycle.before - 1
        IN  /\ cycle.generates <= 1
            /\ cycle.enqueues <= cycle.generates
            /\ cycle.generates = 1 => cycle.needed > 0
            /\ cycle.needed = IF cache_size > left THEN cache_size - left ELSE 0
            /\ stamp - cycle.stamp0 = cycle.enqueues
            /\ Cardinality(fresh) <= cycle.enqueues
            /\ \A i \in 1..Len(entries) : entries[i].timestamp \notin taken
            /\ Len(PendingTexts(entries)) = left + Cardinality(fresh)

\* C27 witness: the only message of a cache of size 2 was sent; needs_refill
\* gave 2, one message was generated and stored, and the call returned.
C27_Witness ==
    /\ cycle.done
    /\ cycle.success = PyBool(TRUE)
    /\ cycle.needed = 2
    /\ cycle.generates = 1
    /\ cycle.enqueues = 1
    /\ Len(cache_file.entries) = 1
    /\ cache_file.entries[1].timestamp = stamp
    /\ q_op.name = "add_message"
    /\ q_op.ret = PyBool(TRUE)

\* C29: the tiers of get_next_check_interval. With r the seconds from the
\* clock reading to next_reminder_time, 0 when there is none or it is not
\* after the reading, the value returned is 300 if r > 3600, 60 if
\* 600 < r <= 3600, and 10 otherwise.
C29_IntervalTiers ==
    s_op.name = "get_next_check_interval" =>
        LET r == IF s_op.pre.set /\ s_op.pre.at > s_op.t1
                 THEN s_op.pre.at - s_op.t1
                 ELSE 0
        IN  /\ r > 3600 => s_op.ret = PyInt(300)
            /\ (600 < r /\ r <= 3600) => s_op.ret = PyInt(60)
            /\ r <= 600 => s_op.ret = PyInt(10)
            /\ s_op.ret \in {PyInt(300), PyInt(60), PyInt(10)}

\* C29 witness: the reminder is exactly 3600 seconds ahead and the interval
\* is 60.
C29_Witness ==
    /\ s_op.name = "get_next_check_interval"
    /\ s_op.pre.set
    /\ s_op.pre.at - s_op.t1 = 3600
    /\ s_op.ret = PyInt(60)

\* The seconds of a sequence of sleeps, added up.
RECURSIVE TotalSeconds(_)
TotalSeconds(sleeps) ==
    IF sleeps = <<>> THEN 0 ELSE Head(sleeps).seconds + TotalSeconds(Tail(sleeps))

\* C30: the backoff is bounded by 2^max_retries. Within one generate_message
\* call every sleep, and the sum of all its sleeps, is less than
\* 2^max_retries seconds.
C30_BackoffBounded ==
    /\ \A i \in 1..Len(GenSleeps) :
          /\ GenSleeps[i].seconds > 0
          /\ GenSleeps[i].seconds < 2 ^ gen_max_retries
    /\ TotalSeconds(GenSleeps) < 2 ^ gen_max_retries

\* C30 witness: four attempts allowed and four transient failures; the sleeps
\* were 2, 4 and 8 seconds, 14 of the 16 seconds of the bound.
C30_Witness ==
    /\ gen_pc = "raised"
    /\ gen_max_retries = 4
    /\ Len(GenCalls) = 4
    /\ GenSleeps = <<SleepEvent(2), SleepEvent(4), SleepEvent(8)>>
    /\ TotalSeconds(GenSleeps) = 14

\* C28: the delivery lag is at most one poll interval. In the polling loop,
\* when only the sleeps take time, a check that finds the reminder due is made
\* at or after next_reminder_time and no later than next_reminder_time plus
\* the interval get_next_check_interval gave right before it; and no sleep
\* ends later than next_reminder_time plus its interval.
C28_LagWithinInterval ==
    [][/\ (app_pc = "check" /\ s_op'.name = "should_send_reminder"
                /\ s_op'.ret = PyBool(TRUE)) =>
            /\ s_op.name = "get_next_check_interval"
            /\ next_reminder_time.set
            /\ now' >= next_reminder_time.at
            /\ now' <= next_reminder_time.at + s_op.ret.n
       /\ (app_pc = "wait" /\ s_op'.name = "get_next_check_interval") =>
            /\ next_reminder_time.set
            /\ wake' = now' + s_op'.ret.n
            /\ wake' <= next_reminder_time.at + s_op'.ret.n]_vars

\* C28 witness: the reminder was found due 5 seconds late, at the end of a
\* sleep of 10 seconds that began 5 seconds ahead of it.
C28_Witness ==
    /\ app_pc = "schedule_next"
    /\ s_op.name = "should_send_reminder"
    /\ s_op.ret = PyBool(TRUE)
    /\ now = next_reminder_time.at + 5
    /\ wake = now

\* C31: accepted messages are non-trivial. Whatever generate_message returns
\* other than None is a string without blanks at either end and at least 10
\* characters long; and when the text _clean_message is left with at its
\* length check is shorter than 10 characters, generate_message returns None.
C31_AcceptedNonTrivial ==
    gen_pc = "returned" =>
        /\ gen_result # PyNone =>
              /\ gen_result.t = "str"
              /\ Strip(gen_result.s) = gen_result.s
              /\ Len(gen_result.s) >= MinMessageLen
        /\ LastEventIsCall =>
              LET raw_message == Strip(GenCalls[Len(GenCalls)].outcome.text)
              IN  (raw_message # <<>> /\ Len(cleaned_text(raw_message)) < MinMessageLen)
                      => gen_result = PyNone

\* C31 witness: the service answered with a text of 11 characters of which 7
\* are left without the markdown, and nothing was returned.
C31_Witness ==
    /\ gen_pc = "returned"
    /\ LastEventIsCall
    /\ GenCalls[Len(GenCalls)].outcome = Response(<<"*", "*", "R", "e", "a", "d", "*", "*", " ", "i", "t">>)
    /\ cleaned_text(<<"*", "*", "R", "e", "a", "d", "*", "*", " ", "i", "t">>) = <<"R", "e", "a", "d", " ", "i", "t">>
    /\ gen_result = PyNone

\* C32: sanitization is idempotent. When _clean_message is given a text it
\* returned, it returns that text.
C32_SanitizationIdempotent == clean_op.again => clean_op.ret = clean_op.prior

\* The example of the specification, and the same text with the marker
\* phrase of the list of separators.
ExampleWithOr == <<"R", "e", "m", "e", "m", "b", "e", "r", " ", "y", "o", "u", "r", " ", "b", "o", "o", "k", "!", "\n", "\n", "O", "r", ":", " ", "D", "o", "n", "'", "t", " ", "f", "o", "r", "g", "e", "t", " ", "t", "o", " ", "r", "e", "a", "d", "!">>
ExampleWithLub == <<"R", "e", "m", "e", "m", "b", "e", "r", " ", "y", "o", "u", "r", " ", "b", "o", "o", "k", "!", "\n", "\n", "L", "u", "b", ":", " ", "D", "o", "n", "'", "t", " ", "f", "o", "r", "g", "e", "t", " ", "t", "o", " ", "r", "e", "a", "d", "!">>
RememberYourBook == <<"R", "e", "m", "e", "m", "b", "e", "r", " ", "y", "o", "u", "r", " ", "b", "o", "o", "k", "!">>

\* The places in message at which a separator of the list begins.
SeparatorPlaces(message) ==
    {i \in 1..Len(message) : \E k \in 1..Len(Separators) : StartsWithAt(message, Separators[k], i)}

\* The stripped text before place i of message.
TextBefore(message, i) == Strip(SubSeq(message, 1, i - 1))

\* A text the steps after the split leave as it is: no markdown delimiter,
\* no list marker ahead, not too long and not too short.
Plain(text) ==
    /\ \A i \in 1..Len(text) : text[i] \notin {"*", "(bt)"}
    /\ Len(text) >= MinMessageLen
    /\ Len(text) <= MaxMessageLen
    /\ ~(IsDigit(text[1]) \/ text[1] \in {"-", "(o)"})

C34_RefillArithmetic ==
    /\ q_op.name \in {"needs_refill", "is_cache_full"} =>
          LET c == Len(PendingQueue(q_op.pre))
              t == q_op.arg.n
          IN  /\ ~q_op.raised
              /\ PendingQueue(cache_file) = PendingQueue(q_op.pre)
              /\ q_op.name = "needs_refill" =>
                     /\ q_op.ret.t = "int"
                     /\ q_op.ret.n >= 0
                     /\ q_op.ret.n >= t - c
                     /\ q_op.ret.n = 0 \/ q_op.ret.n = t - c
              /\ q_op.name = "is_cache_full" => q_op.ret = PyBool(c >= t)
    /\ \A t \in 0..MaxCacheSize :
          is_cache_full(cache_file, t, "ok").ret <=> needs_refill(cache_file, t, "ok").ret = 0

\* C34 witness: two messages are pending and cache_size is 1; needs_refill
\* gave 0, not -1.
C34_Witness ==
    /\ q_op.name = "needs_refill"
    /\ q_op.arg = PyInt(1)
    /\ Len(PendingQueue(q_op.pre)) = 2
    /\ q_op.ret = PyInt(0)
    /\ is_cache_full(cache_file, 1, "ok").ret

\* C35: a freshly computed occasion is never already due. The time a
\* schedule_next_reminder call sets is later than the clock reading the call
\* compared with today's time, whatever its two readings, the second not
\* earlier than the first; a check at that reading would not find it due.
C35_FreshOccasionNotDue ==
    s_op.name = "schedule_next_reminder" =>
        /\ next_reminder_time.set
        /\ next_reminder_time.at > s_op.t2
        /\ ~is_due(s_op.t2, next_reminder_time.at)

\* C36: at most one reminder per calendar day. In the polling loop the
\* schedule_next_reminder call that follows a check that found the reminder
\* due sets a time on a date after the date of that check.
C36_OnePerDay ==
    (app_pc = "wait" /\ s_op.name = "schedule_next_reminder" /\ s_op.pre.set) =>
        /\ is_due(s_op.t1, s_op.pre.at)
        /\ DateOf(next_reminder_time.at) > DateOf(s_op.t1)

\* C37: a message requeued after a failed delivery goes to the tail. The
\* step of _send_reminder in which the transport reports failure leaves the
\* pending queue as it was, entry by entry, followed by the message taken,
\* as a new entry; and the next _send_reminder call finds that entry still
\* last and takes the first entry: another one, unless the requeued message
\* is the only one pending.
C37_RequeuedAtTail ==
    [][/\ (app_pc = "transport" /\ TransportFailed') =>
            LET pre == PendingQueue(cache_file)
                post == PendingQueue(cache_file')
            IN  /\ Len(post) = Len(pre) + 1
                /\ SubSeq(post, 1, Len(pre)) = pre
                /\ post[Len(post)] = JDict(cycle.message, stamp')
                /\ \A i \in 1..Len(pre) : pre[i].timestamp < stamp'
       /\ (app_pc = "send" /\ TransportFailed /\ app_pc' # "send") =>
            LET pending == PendingQueue(cache_file)
                taken == deq_log'[Len(deq_log')]
            IN  /\ pending # <<>>
                /\ pending[Len(pending)] = JDict(cycle.message, stamp)
                /\ Len(deq_log') = Len(deq_log) + 1
                /\ taken.ids = {pending[1].timestamp}
                /\ Len(pending) > 1 => stamp \notin taken.ids
                /\ Len(pending) = 1 => taken.ids = {stamp}
      ]_vars

\* C37 witness: the stored message "a" was taken first and not delivered; it
\* went back into the cache behind the generated message, and the next
\* _send_reminder call took the generated message and left "a" pending.
C37_Witness ==
    /\ Len(deq_log) = 2
    /\ deq_log[1].text = <<"a">>
    /\ \E i \in 1..Len(enq_log) :
          /\ enq_log[i].text = <<"a">>
          /\ deq_log[2].ids # {enq_log[i].id}
    /\ deq_log[2].text = <<"R", "e", "a", "d", " ", "y", "o", "u", "r", " ", "b", "o", "o", "k">>
    /\ app_pc = "transport"
    /\ PendingTexts(cache_file.entries) = <<<<"a">>>>

\* C38: the backlog never grows past its target. From the end of
\* validate_and_repair_cache in _initialize_cache on, messages.json never
\* holds more pending messages than cache_size, or than it held at that
\* moment if that was more.
C38_BacklogBounded ==
    app_pc # "initialize_cache" =>
        /\ init_loop.found >= 0
        /\ Len(PendingQueue(cache_file)) <=
                (IF cache_size > init_loop.found THEN cache_size ELSE init_loop.found)

\* C38 witness: cache_size is 0 and one message was stored at the start; it
\* was taken and not delivered, and is pending again, alone.
C38_Witness ==
    /\ TransportFailed
    /\ cache_size = 0
    /\ init_loop.found = 1
    /\ Len(PendingQueue(cache_file)) = 1

\* generate_message has ended inside _refill_cache without a message: it
\* raised, or returned None.
RefillGenerationFailed ==
    /\ app_pc = "refill_generate"
    /\ \/ gen_pc = "raised"
       \/ gen_pc = "returned" /\ ~Truthy(gen_result)

\* C39: a generation failure during the refill is not fatal and changes
\* nothing. From the successful send_reminder to the end of a
\* generate_message that raised or returned None the cache holds what
\* get_oldest_message left; the step that ends _send_reminder then leaves
\* messages.json untouched, adds no message (the delivered one included),
\* reports the send as successful and hands over to the loop's
\* schedule_next_reminder.
C39_RefillFailureHarmless ==
    [][/\ (app_pc = "transport" /\ app_pc' = "refill_generate") =>
            /\ PendingQueue(cache_file') = PendingQueue(cache_file)
            /\ Len(PendingQueue(cache_file)) = cycle.before - 1
            /\ stamp' = cycle.stamp0
       /\ (app_pc = "refill_generate" /\ app_pc' = "refill_generate") =>
            UNCHANGED <<cache_file, stamp, enq_log, deq_log>>
       /\ RefillGenerationFailed =>
            /\ UNCHANGED <<cache_file, stamp, enq_log, deq_log>>
            /\ Len(PendingQueue(cache_file')) = cycle.before - 1
            /\ stamp' = cycle.stamp0
            /\ cycle'.success = PyBool(TRUE)
            /\ cycle'.done
            /\ cycle'.enqueues = 0
            /\ is_sending' = FALSE
            /\ app_pc' = "schedule_next"
      ]_vars

\* C39 witness: a send ended after a refill that asked for a message and got
\* none; the send is reported successful and the cache holds one message
\* fewer than before the send.
C39_Witness ==
    /\ app_pc = "schedule_next"
    /\ cycle.done
    /\ cycle.generates = 1
    /\ cycle.enqueues = 0
    /\ cycle.success = PyBool(TRUE)
    /\ cycle.before >= 1
    /\ Len(PendingQueue(cache_file)) = cycle.before - 1

\* The _send_reminder call last ended met `outcome`.
SendMet(outcome) ==
    /\ cycle.done
    /\ Truthy(cycle.message) = outcome.message
    /\ cycle.post = outcome.post
    /\ cycle.generates = outcome.generates
    /\ cycle.enqueues = outcome.enqueues

\* C40: the polling loop keeps firing. When the clock advances and every
\* call returns, run() calls _send_reminder only when should_send_reminder
\* has just found the scheduled time due; every scheduled time is in the end
\* found due; every _send_reminder call ends and is followed by
\* schedule_next_reminder and, whatever it met (no message in the cache, a
\* failure of the transport, a failed refill), by another _send_reminder
\* call; and _send_reminder is called again and again, without end.
C40_LoopKeepsFiring ==
    /\ [](app_pc = "send" =>
            /\ s_op.name = "should_send_reminder"
            /\ s_op.ret = PyBool(TRUE)
            /\ s_op.pre = next_reminder_time
            /\ next_reminder_time.set
            /\ is_due(now, next_reminder_time.at))
    /\ (next_reminder_time.set /\ app_pc \in {"check", "wait"}) ~> (app_pc = "send")
    /\ (app_pc = "send") ~> (app_pc = "schedule_next" /\ cycle.done)
    /\ \A outcome \in SendOutcomes :
            (app_pc = "schedule_next" /\ SendMet(outcome)) ~> (app_pc = "send")
    /\ []<><<\E outcome \in SendOutcomes : LiveSendReminder(outcome)>>_vars

\* C40 witness: should_send_reminder has found a scheduled time due, and
\* _send_reminder is about to be called, after a call that found the cache
\* empty.
C40_Witness ==
    /\ app_pc = "send"
    /\ SendMet([message |-> FALSE, post |-> "none", generates |-> 0, enqueues |-> 0])
    /\ is_due(now, next_reminder_time.at)
====
